---------------------------- MODULE Spec2Model ----------------------------
(***************************************************************************)
(* Model of the NUI scalar-data QGIS plugin (lauralindzey/nui_scalar_data).*)
(*                                                                         *)
(* Two threads share the state: the LCM thread (spin_lcm, running the LCM  *)
(* handlers handle_dive_ini / handle_statexy / handle_data) and the Qt     *)
(* main thread (the slots).  Signals emitted by the LCM thread reach the   *)
(* main thread through Qt's queued connections (eventQueue); signals       *)
(* emitted by the main thread run their slots synchronously.               *)
(*                                                                         *)
(* Conventions:                                                            *)
(*  - Python's None is the empty sequence << >>; an optional value v is    *)
(*    <<v>>.  statexy_data and data[key] are None or a non-empty array.    *)
(*  - Times are integer utime ticks; TicksPerSec ticks make one second     *)
(*    (the source divides utime by 1.0e6).                                 *)
(*  - An exception that leaves a slot is recorded in last.raised; under    *)
(*    QGIS the exception hook reports it and the event loop goes on.       *)
(*  - The critical sections guarded by statexy_lock are atomic steps,     *)
(*    except under SpecLock, which takes them statement by statement.     *)
(*  - TimeSeriesPlotter follows nui_scalar_data_plotters.py, the revision  *)
(*    with the view window (dragged range, typed time limit);              *)
(*    nui_scalar_data.py keeps an older copy of the class without it.      *)
(***************************************************************************)
EXTENDS Integers, Sequences, FiniteSets, TLC

\* ------------------------------------------------------------------ bounds
MaxTime == 2
MaxQueue == 1
MaxSamples == 2
MaxOffered == 5

\* utime ticks per second: tt = msg.utime / 1.0e6
TicksPerSec == 10

None == << >>
Some(v) == <<v>>

Channels == {"CH"}
Fields == {"a", "b"}
MsgTypes == {"pkg.msg_t"}
LayerNames == {"L1", "L2"}
Vals == {7}

\* key = f"{channel}/{msg_field}"
Key(channel, msg_field) == channel \o "/" \o msg_field
Keys == {Key(c, f) : c \in Channels, f \in Fields}

\* the three subscriptions MapLayerPlotter.__init__ makes
\* (a handle records its channel and, for a field's subscription, the msg_field
\* its lambda captured)
SubDiveIni == [channel |-> "DIVE_INI", id |-> 0, msg_field |-> ""]
SubFiber == [channel |-> "FIBER_STATEXY", id |-> 0, msg_field |-> ""]
SubAcomm == [channel |-> "ACOMM_STATEXY", id |-> 0, msg_field |-> ""]
StatexyChannels == {"FIBER_STATEXY", "ACOMM_STATEXY"}
MapSubscribers == {SubDiveIni, SubFiber, SubAcomm}

\* the handles lc.subscribe can return to add_field
FieldSubs ==
    [channel : Channels, id : 1..(Cardinality(Keys) + 1), msg_field : Fields]

VARIABLES
    \* MapLayerPlotter
    lon0, lat0,        \* origin, None until initialize_origin
    statexy_data,      \* None or the array of <<t, x, y>> rows
    layers,            \* key -> layer id
    mapLayers,         \* layer id -> [name, features]: the layers of the project
    cursor_layer,      \* the features of the cursor layer
    statexy_lock,      \* the thread that holds the lock: "", "lcm" or "main"
    \* TimeSeriesPlotter
    data,              \* key -> None or the array of <<t, val>> rows
    ylims,             \* key -> <<ymin, ymax>>, each None or the bound the user set
    data_plots,        \* key -> the rows last given to data_plots[key].set_data
    axes_ylim,         \* key -> the y limits of data_axes[key]
    right_click_t0,    \* the time range dragged with the right button
    right_click_t1,
    time_limit,        \* None, a negative window or a start time
    xlim,              \* the x limits of the shared axis
    \* NuiScalarDataMainWindow
    config, sample_rates, last_updated,
    subscribers,       \* key -> subscription handle
    shutdown,
    saved,             \* the project's entry nui_scalar_data/subscriptions
    loaded_config,     \* the items of self.loaded_config still to replay
    \* ConfigureTimeSeriesWidget
    widgets,           \* key -> TRUE (the row's widgets) or FALSE (None)
    \* LCM
    lcSubs,            \* the subscriptions lc dispatches to
    lcmPc,             \* the LCM thread: "handle", "dive_ini" or "done"
    lcmMsg,            \* the DIVE_INI message being handled
    \* the main thread inside MapLayerPlotter.update_data
    mainPc,            \* "idle", "interp", "convert" or "add_feature"
    mainLocal,         \* its key, tt, val, xx, yy
    \* Qt
    eventQueue,        \* queued signals from the LCM thread to the main thread
    last,              \* what the last handler did
    offered,           \* history: the sample times update_data was given
    window             \* history: the view window the latest setter asked for

mapVars == <<lon0, lat0, statexy_data, layers, mapLayers, cursor_layer>>
viewVars == <<right_click_t0, right_click_t1, time_limit, xlim>>
tsVars == <<data, ylims, data_plots, axes_ylim, viewVars>>
mainVars == <<config, sample_rates, last_updated, subscribers, shutdown>>
lcmVars == <<lcSubs, lcmPc, lcmMsg>>
lockVars == <<statexy_lock, mainPc, mainLocal>>
histVars == <<offered, window>>
otherVars == <<histVars, saved, loaded_config, lockVars>>
vars == <<mapVars, tsVars, mainVars, saved, loaded_config, widgets, lcmVars,
          lockVars, eventQueue, last, histVars>>

\* ----------------------------------------------------------------- helpers
EmptyMap == [k \in {} |-> 0]
Put(f, k, v) == [x \in DOMAIN f \cup {k} |-> IF x = k THEN v ELSE f[x]]
Pop(f, k) == [x \in DOMAIN f \ {k} |-> f[x]]

\* what a handler did: its name, its outcome, the exceptions that left its
\* slots, and whether it read the track under statexy_lock
NoOp == [op |-> "", result |-> "", raised |-> {}, track_read |-> FALSE]
Did(op, result) == [NoOp EXCEPT !.op = op, !.result = result]

\* the view windows: all samples, the trailing w, those since s, and the
\* dragged range from a to b; after is the kind of the window it replaced
FullWindow == [kind |-> "FULL", a |-> 0, b |-> 0, after |-> ""]
Trailing(w) == [kind |-> "TRAILING", a |-> w, b |-> 0, after |-> ""]
Since(s) == [kind |-> "SINCE", a |-> s, b |-> 0, after |-> ""]
Explicit(a, b) == [kind |-> "EXPLICIT", a |-> a, b |-> b, after |-> ""]

\* the window a typed time limit asks for
Typed(timestamp) ==
    IF timestamp = None THEN FullWindow
    ELSE IF timestamp[1] < 0 THEN Trailing(-timestamp[1])
    ELSE Since(timestamp[1])

\* the x limits of a new axis
NewXlim == <<0, 1>>

\* the main thread is in the Qt event loop, ready to run a slot
Idle == mainPc = "idle"

\* the loop test of spin_lcm, made after lc.handle() returns
SpinLcm == IF shutdown THEN "done" ELSE "handle"

Init ==
    /\ lon0 = None /\ lat0 = None
    /\ statexy_data = None
    /\ layers = EmptyMap /\ mapLayers = EmptyMap
    /\ cursor_layer = << >>
    /\ data = EmptyMap /\ ylims = EmptyMap
    /\ data_plots = EmptyMap /\ axes_ylim = EmptyMap
    /\ right_click_t0 = None /\ right_click_t1 = None /\ time_limit = None
    /\ xlim = NewXlim
    /\ saved = None /\ loaded_config = << >>
    /\ statexy_lock = "" /\ mainPc = "idle" /\ mainLocal = None
    /\ config = EmptyMap /\ sample_rates = EmptyMap /\ last_updated = EmptyMap
    /\ subscribers = EmptyMap
    /\ shutdown = FALSE
    /\ widgets = EmptyMap
    /\ lcSubs = MapSubscribers
    /\ lcmPc = "handle" /\ lcmMsg = None
    /\ eventQueue = << >>
    /\ last = NoOp
    /\ offered = << >>
    /\ window = FullWindow

\* ------------------------------------------------- MapLayerPlotter (LCM side)
\* handle_statexy with "utime >= last" for the test "tt > self.statexy_data[-1][0]"
AppendStatexy_AcceptEqual(track, utime, x, y) ==
    IF track = None THEN << <<utime, x, y>> >>
    ELSE IF utime >= track[Len(track)][1] THEN Append(track, <<utime, x, y>>)
    ELSE track

\* handle_statexy that lets a stale message replace the newest row
AppendStatexy_Overwrite(track, utime, x, y) ==
    IF track = None THEN << <<utime, x, y>> >>
    ELSE IF utime > track[Len(track)][1] THEN Append(track, <<utime, x, y>>)
    ELSE [track EXCEPT ![Len(track)] = <<utime, x, y>>]

\* handle_statexy body under statexy_lock: the track after a message
AppendStatexy(track, utime, x, y) ==
    IF track = None THEN << <<utime, x, y>> >>
    ELSE IF utime > track[Len(track)][1] THEN Append(track, <<utime, x, y>>)
    ELSE track

HandleStatexy(channel, utime, x, y) ==
    /\ lcmPc = "handle"
    /\ \E s \in lcSubs : s.channel = channel
    /\ statexy_data' = AppendStatexy(statexy_data, utime, x, y)
    /\ last' = Did("handle_statexy",
                    IF statexy_data' # statexy_data THEN "appended" ELSE "stale")
    /\ lcmPc' = SpinLcm
    /\ UNCHANGED <<lon0, lat0, layers, mapLayers, cursor_layer, tsVars, mainVars,
                   widgets, lcSubs, lcmMsg, eventQueue, otherVars>>

\* A DIVE_INI message arrives while spin_lcm is in lc.handle(): LCM hands it
\* to handle_dive_ini if that subscription is active and drops it otherwise.
\* handle_dive_ini, first part: decode and log
DispatchDiveIni(origin) ==
    /\ lcmPc = "handle"
    /\ IF SubDiveIni \in lcSubs
       THEN /\ Len(eventQueue) < MaxQueue
            /\ lcmPc' = "dive_ini"
            /\ lcmMsg' = Some(origin)
            /\ last' = Did("handle_dive_ini", "decoded")
       ELSE /\ UNCHANGED <<lcmPc, lcmMsg>>
            /\ last' = Did("lc.handle", "no subscriber")
    /\ UNCHANGED <<mapVars, tsVars, mainVars, widgets, lcSubs, eventQueue, otherVars>>

\* handle_dive_ini that emits received_origin without unsubscribing
HandleDiveIni_KeepSubscription ==
    /\ lcmPc = "dive_ini"
    /\ eventQueue' = Append(eventQueue,
          [sig |-> "received_origin", key |-> "",
           a |-> lcmMsg[1][1], b |-> lcmMsg[1][2]])
    /\ last' = Did("handle_dive_ini", "emitted")
    /\ lcmPc' = SpinLcm
    /\ lcmMsg' = None
    /\ UNCHANGED <<mapVars, tsVars, mainVars, widgets, lcSubs, otherVars>>

\* handle_dive_ini, the try block: unsubscribe, then emit received_origin;
\* lc.unsubscribe raises for a subscription that is no longer active
HandleDiveIni ==
    /\ lcmPc = "dive_ini"
    /\ IF SubDiveIni \in lcSubs
       THEN /\ lcSubs' = lcSubs \ {SubDiveIni}
            /\ eventQueue' = Append(eventQueue,
                  [sig |-> "received_origin", key |-> "",
                   a |-> lcmMsg[1][1], b |-> lcmMsg[1][2]])
            /\ last' = Did("handle_dive_ini", "emitted")
       ELSE /\ UNCHANGED <<lcSubs, eventQueue>>
            /\ last' = Did("handle_dive_ini", "Could not unsubscribe from DIVE_INI")
    /\ lcmPc' = SpinLcm
    /\ lcmMsg' = None
    /\ UNCHANGED <<mapVars, tsVars, mainVars, widgets, otherVars>>

\* ------------------------------------- NuiScalarDataMainWindow (LCM side)
\* handle_data for a well-formed message: emit new_data(key, tt, vv)
HandleData(h, utime, vv) ==
    /\ lcmPc = "handle"
    /\ h \in lcSubs /\ h.id # 0
    /\ Len(eventQueue) < MaxQueue
    /\ LET key == Key(h.channel, h.msg_field) IN
         /\ key \in DOMAIN data => Len(data[key]) < MaxSamples
         /\ eventQueue' = Append(eventQueue,
               [sig |-> "new_data", key |-> key, a |-> utime, b |-> vv])
         /\ last' = Did("handle_data", "emitted")
    /\ lcmPc' = SpinLcm
    /\ UNCHANGED <<mapVars, tsVars, mainVars, widgets, lcSubs, lcmMsg, otherVars>>

\* ------------------------------------------------------ malformed messages
\* an exception that leaves a handler leaves lc.handle() and spin_lcm, which
\* have no try statement: the thread ends
Uncaught(op, handler, exception) ==
    /\ lcmPc' = "crashed"
    /\ last' = [Did(op, "malformed") EXCEPT !.raised = {<<handler, exception>>}]

\* handle_statexy for bytes that statexy_t.decode rejects
HandleStatexyBad(channel) ==
    /\ lcmPc = "handle"
    /\ \E s \in lcSubs : s.channel = channel
    /\ Uncaught("handle_statexy", "MapLayerPlotter.handle_statexy", "ValueError")
    /\ UNCHANGED <<mapVars, tsVars, mainVars, widgets, lcSubs, lcmMsg, eventQueue,
                   otherVars>>

\* handle_dive_ini for bytes that dive_t.decode rejects
HandleDiveIniBad ==
    /\ lcmPc = "handle"
    /\ SubDiveIni \in lcSubs
    /\ Uncaught("handle_dive_ini", "MapLayerPlotter.handle_dive_ini", "ValueError")
    /\ UNCHANGED <<mapVars, tsVars, mainVars, widgets, lcSubs, lcmMsg, eventQueue,
                   otherVars>>

\* the exceptions handle_data catches: ValueError from msg_type.decode,
\* AttributeError from msg.utime or getattr(msg, msg_field)
DataFaults == {"ValueError", "AttributeError"}

\* handle_data that emits new_data before it finds the message at fault
HandleDataBad_Emits(h, fault) ==
    /\ lcmPc = "handle"
    /\ h \in lcSubs /\ h.id # 0
    /\ Len(eventQueue) < MaxQueue
    /\ eventQueue' = Append(eventQueue,
          [sig |-> "new_data", key |-> Key(h.channel, h.msg_field),
           a |-> MaxTime, b |-> 0])
    /\ last' = Did("handle_data", "malformed")
    /\ lcmPc' = SpinLcm
    /\ UNCHANGED <<mapVars, tsVars, mainVars, widgets, lcSubs, lcmMsg, otherVars>>

\* handle_data for a message at fault: the except clauses log it
HandleDataBad(h, fault) ==
    /\ lcmPc = "handle"
    /\ h \in lcSubs /\ h.id # 0
    /\ last' = Did("handle_data", "malformed")
    /\ lcmPc' = SpinLcm
    /\ UNCHANGED <<mapVars, tsVars, mainVars, widgets, lcSubs, lcmMsg, eventQueue,
                   otherVars>>

\* ---------------------------------------------------------- interpolation
RECURSIVE Gcd(_, _)
Gcd(a, b) == IF b = 0 THEN a ELSE Gcd(b, a % b)
Abs(n) == IF n < 0 THEN -n ELSE n
\* the rational num/den (den > 0) in lowest terms
Rat(num, den) ==
    LET g == Gcd(Abs(num), den) IN <<num \div g, den \div g>>

\* linear interpolation that goes on along the end segments outside the range
Interp_Extrapolate(tt, track, col) ==
    IF Len(track) = 1 THEN Rat(track[1][col], 1)
    ELSE LET i == IF tt <= track[1][1] THEN 1
                  ELSE IF tt >= track[Len(track)][1] THEN Len(track) - 1
                  ELSE CHOOSE j \in 1..(Len(track) - 1) :
                           track[j][1] <= tt /\ tt < track[j + 1][1]
             t0 == track[i][1]
             t1 == track[i + 1][1]
             f0 == track[i][col]
             f1 == track[i + 1][col]
         IN Rat(f0 * (t1 - t0) + (f1 - f0) * (tt - t0), t1 - t0)

\* np.interp(tt, track[:, 0], track[:, col]) on a non-empty track with
\* increasing times: the end values outside the range, linear in between
Interp(tt, track, col) ==
    IF tt <= track[1][1] THEN Rat(track[1][col], 1)
    ELSE IF tt >= track[Len(track)][1] THEN Rat(track[Len(track)][col], 1)
    ELSE LET i == CHOOSE j \in 1..(Len(track) - 1) :
                      track[j][1] <= tt /\ tt < track[j + 1][1]
             t0 == track[i][1]
             t1 == track[i + 1][1]
             f0 == track[i][col]
             f1 == track[i + 1][col]
         IN Rat(f0 * (t1 - t0) + (f1 - f0) * (tt - t0), t1 - t0)

\* xy2ll(xx, yy, lat_0, lon_0), kept symbolic: the point and the origin used
XY2LL(xx, yy, lat_0, lon_0) ==
    [xx |-> xx, yy |-> yy, lat_0 |-> lat_0, lon_0 |-> lon_0]

\* mdeglat(lat_deg) and mdeglon(lat_deg), the length of a degree of latitude
\* and of longitude, in hundreds of metres (the unit of x and y here),
\* rounded, at the latitudes of the origins used
MDegLat(lat_deg) ==
    CASE lat_deg = 0 -> 1106
      [] lat_deg = 42 -> 1111
      [] lat_deg = -60 -> 1114
MDegLon(lat_deg) ==
    CASE lat_deg = 0 -> 1113
      [] lat_deg = 42 -> 829
      [] lat_deg = -60 -> 558

\* on rationals: p < q, p + n and p / n for an integer n (n > 0 to divide)
RatLess(p, q) == p[1] * q[2] < q[1] * p[2]
RatPlus(p, n) == Rat(p[1] + n * p[2], p[2])
RatOver(p, n) == Rat(p[1], p[2] * n)
RatTimes(p, n) == Rat(p[1] * n, p[2])

\* ll2xy(lat, lon, lat_0, lon_0): the longitude after the two if statements,
\* and the x and y computed from it
LL2XY(lat, lon, lat_0, lon_0) ==
    LET lon1 == IF RatLess(<<180, 1>>, lon) THEN RatPlus(lon, -360) ELSE lon
        lon2 == IF RatLess(lon1, <<-180, 1>>) THEN RatPlus(lon1, 360) ELSE lon1
    IN [lon |-> lon2,
        xx |-> RatTimes(RatPlus(lon2, -lon_0), MDegLon(lat_0)),
        yy |-> RatTimes(RatPlus(lat, -lat_0), MDegLat(lat_0))]

\* the lat, lon that xy2ll returns for the point g
LatLon(g) ==
    [lat |-> RatPlus(RatOver(g.yy, MDegLat(g.lat_0)), g.lat_0),
     lon |-> RatPlus(RatOver(g.xx, MDegLon(g.lat_0)), g.lon_0)]

\* a call of ll2xy on whole degrees
CallLL2XY(lat, lon, lat_0, lon_0) ==
    /\ last' = Did("ll2xy", [args |-> <<lat, lon, lat_0, lon_0>>,
                             out |-> LL2XY(<<lat, 1>>, <<lon, 1>>, lat_0, lon_0)])
    /\ UNCHANGED <<mapVars, tsVars, mainVars, widgets, lcmVars, eventQueue,
                   otherVars>>

\* xy2ll on whole hundreds of metres, then ll2xy on what it returned, with one origin
CallXY2LLThenLL2XY(xx, yy, lat_0, lon_0) ==
    LET ll == LatLon(XY2LL(<<xx, 1>>, <<yy, 1>>, lat_0, lon_0)) IN
    /\ last' = Did("xy2ll, ll2xy",
                    [args |-> <<xx, yy, lat_0, lon_0>>,
                     ll |-> ll,
                     out |-> LL2XY(ll.lat, ll.lon, lat_0, lon_0)])
    /\ UNCHANGED <<mapVars, tsVars, mainVars, widgets, lcmVars, eventQueue,
                   otherVars>>

\* ------------------------------------------- MapLayerPlotter (main thread)
\* initialize_origin(lon0, lat0)
InitializeOrigin(lon, lat) ==
    /\ lon0' = Some(lon)
    /\ lat0' = Some(lat)
    /\ UNCHANGED <<statexy_data, layers, mapLayers, cursor_layer>>

\* update_cursor(tt): what it raises, whether it read the track under the
\* lock, and the cursor layer afterwards
CursorResult(tt) ==
    IF lon0 = None
    THEN [raised |-> "", track_read |-> FALSE, cursor |-> cursor_layer]
    ELSE IF statexy_data = None
    THEN [raised |-> "TypeError", track_read |-> TRUE, cursor |-> cursor_layer]
    ELSE LET xx == Interp(tt, statexy_data, 2)
             yy == Interp(tt, statexy_data, 3)
         IN [raised |-> "", track_read |-> TRUE,
             cursor |-> << [geom |-> XY2LL(xx, yy, lat0[1], lon0[1]), t |-> tt] >>]

\* update_cursor held back by the rate limiter of the fields
UpdateCursor_Throttled(tt) ==
    LET r == CursorResult(tt)
        held == \E k \in DOMAIN last_updated :
                    sample_rates[k] > 0
                    /\ (tt - last_updated[k]) * sample_rates[k] < TicksPerSec
    IN
    /\ Idle
    /\ cursor_layer' = (IF held THEN cursor_layer ELSE r.cursor)
    /\ last' = [Did("update_cursor", IF lon0 = None THEN "Origin not initialized"
                                      ELSE IF held THEN "decimated"
                                      ELSE IF r.raised = "" THEN "moved" ELSE "")
                  EXCEPT
                  !.raised = IF r.raised = "" \/ held THEN {}
                             ELSE {<<"MapLayerPlotter.update_cursor", r.raised>>},
                  !.track_read = r.track_read]
    /\ UNCHANGED <<lon0, lat0, statexy_data, layers, mapLayers, tsVars, mainVars,
                   widgets, lcmVars, eventQueue, otherVars>>

UpdateCursor(tt) ==
    LET r == CursorResult(tt) IN
    /\ Idle
    /\ cursor_layer' = r.cursor
    /\ last' = [Did("update_cursor", IF lon0 = None THEN "Origin not initialized"
                                      ELSE IF r.raised = "" THEN "moved" ELSE "")
                  EXCEPT
                  !.raised = IF r.raised = "" THEN {}
                             ELSE {<<"MapLayerPlotter.update_cursor", r.raised>>},
                  !.track_read = r.track_read]
    /\ UNCHANGED <<lon0, lat0, statexy_data, layers, mapLayers, tsVars, mainVars,
                   widgets, lcmVars, eventQueue, otherVars>>

\* MapLayerPlotter.update_data without the "self.lon0 is None" test: it reads
\* the track, and xy2ll(xx, yy, None, None) raises TypeError in math.radians
MapUpdateData_NoOriginCheck(key, tt, val) ==
    IF key \notin DOMAIN layers
    THEN [raised |-> "", track_read |-> FALSE, added |-> FALSE, mapLayers |-> mapLayers]
    ELSE IF statexy_data = None \/ lon0 = None
    THEN [raised |-> "TypeError", track_read |-> TRUE, added |-> FALSE,
          mapLayers |-> mapLayers]
    ELSE IF layers[key] \notin DOMAIN mapLayers
    THEN [raised |-> "RuntimeError", track_read |-> TRUE, added |-> FALSE,
          mapLayers |-> mapLayers]
    ELSE LET xx == Interp(tt, statexy_data, 2)
             yy == Interp(tt, statexy_data, 3)
             feature == [geom |-> XY2LL(xx, yy, lat0[1], lon0[1]),
                         x |-> xx, y |-> yy, t |-> tt, val |-> val]
             id == layers[key]
         IN [raised |-> "", track_read |-> TRUE, added |-> TRUE,
             mapLayers |-> [mapLayers EXCEPT
                 ![id].features = Append(mapLayers[id].features, feature)]]

\* MapLayerPlotter.update_data(key, tt, val): what it raises, whether it read
\* the track under the lock, and the project's layers afterwards
MapUpdateData(key, tt, val) ==
    IF lon0 = None
    THEN [raised |-> "", track_read |-> FALSE, added |-> FALSE, mapLayers |-> mapLayers]
    ELSE IF key \notin DOMAIN layers
    THEN [raised |-> "", track_read |-> FALSE, added |-> FALSE, mapLayers |-> mapLayers]
    ELSE IF statexy_data = None
    THEN [raised |-> "TypeError", track_read |-> TRUE, added |-> FALSE,
          mapLayers |-> mapLayers]
    ELSE IF layers[key] \notin DOMAIN mapLayers
    THEN [raised |-> "RuntimeError", track_read |-> TRUE, added |-> FALSE,
          mapLayers |-> mapLayers]
    ELSE LET xx == Interp(tt, statexy_data, 2)
             yy == Interp(tt, statexy_data, 3)
             feature == [geom |-> XY2LL(xx, yy, lat0[1], lon0[1]),
                         x |-> xx, y |-> yy, t |-> tt, val |-> val]
             id == layers[key]
         IN [raised |-> "", track_read |-> TRUE, added |-> TRUE,
             mapLayers |-> [mapLayers EXCEPT
                 ![id].features = Append(mapLayers[id].features, feature)]]

\* -------------------------------------------- TimeSeriesPlotter.update_data
\* np.min and np.max of a non-empty column
MinOf(S) == CHOOSE m \in S : \A n \in S : m <= n
MaxOf(S) == CHOOSE m \in S : \A n \in S : m >= n
Column(rows, col) == {rows[i][col] : i \in 1..Len(rows)}

\* the time bounds update_data and maybe_refresh use when the times they look
\* at are the non-empty set times: the dragged range if both ends are set,
\* else the bounds time_limit gives
TimeBounds(times) ==
    IF right_click_t0 # None /\ right_click_t1 # None
    THEN <<right_click_t0[1], right_click_t1[1]>>
    ELSE <<IF time_limit = None THEN MinOf(times)
           ELSE IF time_limit[1] < 0 THEN MaxOf(times) + time_limit[1]
           ELSE time_limit[1],
           MaxOf(times)>>

\* the rows with t0 < time and time < t1
RowsWithin_Exclusive(rows, t0, t1) ==
    SelectSeq(rows, LAMBDA r : r[1] > t0 /\ r[1] < t1)

\* self.data[key][idxs]: the rows with t0 <= time and time <= t1, in order
RowsWithin(rows, t0, t1) ==
    SelectSeq(rows, LAMBDA r : r[1] >= t0 /\ r[1] <= t1)

\* the limit set_ylim leaves on an axis: the bound given, or the old limit
\* for None
SetLim(old, bound) == IF bound = None THEN old ELSE bound[1]

\* update_data storing back the rows inside the window
TsUpdateData_KeepsSlice(key, tt, val) ==
    LET rows == IF data[key] = None THEN << <<tt, val>> >>
                ELSE Append(data[key], <<tt, val>>)
        tb == TimeBounds(Column(rows, 1))
        shown == RowsWithin(rows, tb[1], tb[2])
        ymin == IF ylims[key][1] = None /\ Len(shown) > 0
                THEN Some(MinOf(Column(shown, 2))) ELSE ylims[key][1]
        ymax == IF ylims[key][2] = None /\ Len(shown) > 0
                THEN Some(MaxOf(Column(shown, 2))) ELSE ylims[key][2]
    IN [data |-> [data EXCEPT ![key] = shown],
        data_plots |-> [data_plots EXCEPT ![key] = shown],
        axes_ylim |-> [axes_ylim EXCEPT
            ![key] = <<SetLim(axes_ylim[key][1], ymin),
                       SetLim(axes_ylim[key][2], ymax)>>]]

\* update_data taking the y limits from the whole history
TsUpdateData_FullHistory(key, tt, val) ==
    LET rows == IF data[key] = None THEN << <<tt, val>> >>
                ELSE Append(data[key], <<tt, val>>)
        tb == TimeBounds(Column(rows, 1))
        shown == RowsWithin(rows, tb[1], tb[2])
        ymin == IF ylims[key][1] = None
                THEN Some(MinOf(Column(rows, 2))) ELSE ylims[key][1]
        ymax == IF ylims[key][2] = None
                THEN Some(MaxOf(Column(rows, 2))) ELSE ylims[key][2]
    IN [data |-> [data EXCEPT ![key] = rows],
        data_plots |-> [data_plots EXCEPT ![key] = shown],
        axes_ylim |-> [axes_ylim EXCEPT
            ![key] = <<SetLim(axes_ylim[key][1], ymin),
                       SetLim(axes_ylim[key][2], ymax)>>]]

\* update_data setting the y limits of every field's axis
TsUpdateData_SharedAxis(key, tt, val) ==
    LET rows == IF data[key] = None THEN << <<tt, val>> >>
                ELSE Append(data[key], <<tt, val>>)
        tb == TimeBounds(Column(rows, 1))
        shown == RowsWithin(rows, tb[1], tb[2])
        ymin == IF ylims[key][1] = None /\ Len(shown) > 0
                THEN Some(MinOf(Column(shown, 2))) ELSE ylims[key][1]
        ymax == IF ylims[key][2] = None /\ Len(shown) > 0
                THEN Some(MaxOf(Column(shown, 2))) ELSE ylims[key][2]
    IN [data |-> [data EXCEPT ![key] = rows],
        data_plots |-> [data_plots EXCEPT ![key] = shown],
        axes_ylim |-> [j \in DOMAIN axes_ylim |->
                          <<SetLim(axes_ylim[key][1], ymin),
                            SetLim(axes_ylim[key][2], ymax)>>]]

\* TimeSeriesPlotter.update_data(key, tt, val): the series, the rows plotted
\* and the y limits of the field's axis afterwards
TsUpdateData(key, tt, val) ==
    LET rows == IF data[key] = None THEN << <<tt, val>> >>
                ELSE Append(data[key], <<tt, val>>)
        tb == TimeBounds(Column(rows, 1))
        shown == RowsWithin(rows, tb[1], tb[2])
        ymin == IF ylims[key][1] = None /\ Len(shown) > 0
                THEN Some(MinOf(Column(shown, 2))) ELSE ylims[key][1]
        ymax == IF ylims[key][2] = None /\ Len(shown) > 0
                THEN Some(MaxOf(Column(shown, 2))) ELSE ylims[key][2]
    IN [data |-> [data EXCEPT ![key] = rows],
        data_plots |-> [data_plots EXCEPT ![key] = shown],
        axes_ylim |-> [axes_ylim EXCEPT
            ![key] = <<SetLim(axes_ylim[key][1], ymin),
                       SetLim(axes_ylim[key][2], ymax)>>]]

\* --------------------------------- NuiScalarDataMainWindow (main thread)
\* dt < period, with dt in ticks and period = 1.0 / sample_rate seconds
\* (sample_rate # 0): dt / TicksPerSec < 1 / sample_rate
Decimated(dt, sample_rate) ==
    IF sample_rate > 0 THEN dt * sample_rate < TicksPerSec
    ELSE dt * sample_rate > TicksPerSec

\* NuiScalarDataMainWindow.update_data(key, tt, val), the slot of new_data
UpdateData(key, tt, val) ==
    IF key \notin DOMAIN last_updated
    THEN /\ last' = [Did("update_data", "") EXCEPT
                !.raised = {<<"NuiScalarDataMainWindow.update_data", "KeyError">>}]
         /\ UNCHANGED <<mapVars, tsVars, mainVars>>
    ELSE IF sample_rates[key] = 0
    THEN /\ last' = [Did("update_data", "") EXCEPT
                !.raised = {<<"NuiScalarDataMainWindow.update_data",
                              "ZeroDivisionError">>}]
         /\ UNCHANGED <<mapVars, tsVars, mainVars>>
    ELSE IF Decimated(tt - last_updated[key], sample_rates[key])
    THEN /\ last' = Did("update_data", "decimated")
         /\ UNCHANGED <<mapVars, tsVars, mainVars>>
    ELSE LET m == MapUpdateData(key, tt, val) IN
         /\ last_updated' = [last_updated EXCEPT ![key] = tt]
         /\ mapLayers' = m.mapLayers
         /\ IF m.raised # ""
            THEN /\ UNCHANGED <<data, data_plots, axes_ylim>>
                 /\ last' = [Did("update_data", "accepted") EXCEPT
                        !.raised = {<<"MapLayerPlotter.update_data", m.raised>>},
                        !.track_read = m.track_read]
            ELSE /\ LET t == TsUpdateData(key, tt, val) IN
                      /\ data' = t.data
                      /\ data_plots' = t.data_plots
                      /\ axes_ylim' = t.axes_ylim
                 /\ last' = [Did("update_data", "accepted") EXCEPT
                        !.track_read = m.track_read]
         /\ UNCHANGED <<lon0, lat0, statexy_data, layers, cursor_layer,
                        ylims, viewVars, config, sample_rates,
                        subscribers, shutdown>>

\* importlib.import_module(msg_pkg) and getattr(module, msg_class) succeed
Importable(msg_type_str) == msg_type_str \in MsgTypes

\* a handle lc.subscribe returns: one that no subscription, live or kept in
\* subscribers, has
NewSub(channel, msg_field) ==
    LET used == {h.id : h \in lcSubs} \cup {subscribers[k].id : k \in DOMAIN subscribers}
        n == CHOOSE i \in 1..(Cardinality(Keys) + 1) :
                 i \notin used /\ \A j \in 1..(i - 1) : j \in used
    IN [channel |-> channel, id |-> n, msg_field |-> msg_field]

\* the id of a layer QgsVectorLayer(...) creates: one no layer of the project
\* and no entry of layers has
NewLayerId ==
    LET used == DOMAIN mapLayers \cup {layers[k] : k \in DOMAIN layers}
    IN CHOOSE i \in 1..(Cardinality(Keys) + 1) :
           i \notin used /\ \A j \in 1..(i - 1) : j \in used

\* MapLayerPlotter.add_field(key, layer_name): attach to the layer of that name
\* in the Scalar Data group, deleting its features, or create the layer
MapAddField(key, layer_name) ==
    LET found == {id \in DOMAIN mapLayers : mapLayers[id].name = layer_name} IN
    IF found # {}
    THEN LET id == CHOOSE x \in found : TRUE IN
         /\ layers' = Put(layers, key, id)
         /\ mapLayers' = [mapLayers EXCEPT ![id].features = << >>]
    ELSE /\ layers' = Put(layers, key, NewLayerId)
         /\ mapLayers' = Put(mapLayers, NewLayerId,
                             [name |-> layer_name, features |-> << >>])

\* the y limits of the axis ax.twinx() returns
NewAxesYlim == <<0, 1>>

\* TimeSeriesPlotter.add_field(key, layer_name)
TsAddField(key, layer_name) ==
    /\ data' = Put(data, key, None)
    /\ ylims' = Put(ylims, key, <<None, None>>)
    /\ data_plots' = Put(data_plots, key, << >>)
    /\ axes_ylim' = Put(axes_ylim, key, NewAxesYlim)
    /\ UNCHANGED viewVars

\* add_field without the "key in self.config" test
AddField_NoDuplicateCheck(channel, msg_type_str, msg_field, sample_rate, layer_name) ==
    LET key == Key(channel, msg_field) IN
    /\ config' = Put(config, key,
          <<channel, msg_type_str, msg_field, sample_rate, layer_name>>)
    /\ sample_rates' = Put(sample_rates, key, sample_rate)
    /\ last_updated' = Put(last_updated, key, 0)
    /\ TsAddField(key, layer_name)
    /\ MapAddField(key, layer_name)
    /\ widgets' = Put(widgets, key, TRUE)
    /\ LET h == NewSub(channel, msg_field) IN
         /\ subscribers' = Put(subscribers, key, h)
         /\ lcSubs' = lcSubs \cup {h}
    /\ last' = Did("add_field", "added")
    /\ UNCHANGED <<lon0, lat0, statexy_data, cursor_layer, shutdown,
                   lcmPc, lcmMsg, eventQueue, histVars, saved, lockVars>>

\* NuiScalarDataMainWindow.add_field, the slot of new_field
AddField(channel, msg_type_str, msg_field, sample_rate, layer_name) ==
    LET key == Key(channel, msg_field) IN
    IF key \in DOMAIN config
    THEN /\ last' = Did("add_field", "Duplicate field")
         /\ UNCHANGED <<mapVars, tsVars, mainVars, widgets, lcmVars, eventQueue,
                        histVars, saved, lockVars>>
    ELSE /\ config' = Put(config, key,
                <<channel, msg_type_str, msg_field, sample_rate, layer_name>>)
         /\ sample_rates' = Put(sample_rates, key, sample_rate)
         /\ last_updated' = Put(last_updated, key, 0)
         /\ TsAddField(key, layer_name)
         /\ MapAddField(key, layer_name)
         /\ widgets' = Put(widgets, key, TRUE)
         /\ IF Importable(msg_type_str)
            THEN LET h == NewSub(channel, msg_field) IN
                 /\ subscribers' = Put(subscribers, key, h)
                 /\ lcSubs' = lcSubs \cup {h}
                 /\ last' = Did("add_field", IF key \in DOMAIN widgets
                                              THEN "re-added" ELSE "added")
            ELSE /\ UNCHANGED <<subscribers, lcSubs>>
                 /\ last' = [Did("add_field", "") EXCEPT
                        !.raised = {<<"NuiScalarDataMainWindow.add_field",
                                      "ModuleNotFoundError">>}]
         /\ UNCHANGED <<lon0, lat0, statexy_data, cursor_layer, shutdown,
                        lcmPc, lcmMsg, eventQueue, histVars, saved, lockVars>>

\* the new_field signal of the form, delivered to add_field
NewField(channel, msg_type_str, msg_field, sample_rate, layer_name) ==
    /\ Idle
    /\ AddField(channel, msg_type_str, msg_field, sample_rate, layer_name)
    /\ UNCHANGED loaded_config

\* ------------------------------------------------ AddScalarDataFieldWidget
\* text.strip() == ""
Blank(text) == text \in {"", " "}

\* msg_type_str.split("."), import_module, getattr and msg_type(): the
\* exception raised, or None; "msg_t" has no dot, the package nopkg does not
\* exist, the package pkg has no class gone_t
Instantiate(msg_type_str) ==
    CASE msg_type_str = "msg_t" -> Some("ValueError")
      [] msg_type_str = "nopkg.msg_t" -> Some("ModuleNotFoundError")
      [] msg_type_str = "pkg.gone_t" -> Some("AttributeError")
      [] OTHER -> None

\* hasattr(msg, name): pkg.msg_t has utime and the fields a and b, pkg.plain_t
\* has the field a and no utime
HasAttr(msg_type_str, name) ==
    CASE msg_type_str = "pkg.msg_t" -> name \in {"utime", "a", "b"}
      [] msg_type_str = "pkg.plain_t" -> name \in {"a"}
      [] OTHER -> FALSE

\* float(sample_rate_str): the number, or None when it raises
ParseFloat(text) ==
    CASE text = "5" -> Some(5)
      [] text = "-10" -> Some(-10)
      [] text = "0" -> Some(0)
      [] OTHER -> None

\* a return of add_button_clicked after its error message
Refuse(errmsg) ==
    /\ Idle
    /\ last' = Did("add_button_clicked", errmsg)
    /\ UNCHANGED <<mapVars, tsVars, mainVars, widgets, lcmVars, eventQueue,
                   otherVars>>

\* add_button_clicked without the test that the message has the field
AddButtonClicked_NoFieldCheck(channel_name, msg_type_str, msg_field, sample_rate_str, layer_name) ==
    IF Blank(channel_name)
    THEN Refuse("Please select non-empty channel name.")
    ELSE IF Instantiate(msg_type_str) # None
    THEN Refuse("Tried to instantiate")
    ELSE IF ~HasAttr(msg_type_str, "utime")
    THEN Refuse("Plotted messages must have utime field!")
    ELSE IF ParseFloat(sample_rate_str) = None
    THEN Refuse("Couldn't convert input into float.")
    ELSE IF Blank(layer_name)
    THEN Refuse("Please select non-empty layer name.")
    ELSE NewField(channel_name, msg_type_str, msg_field,
                  ParseFloat(sample_rate_str)[1], layer_name)

\* add_button_clicked on the texts of the five line edits: new_field is
\* emitted after the last test, and add_field runs in the emit
AddButtonClicked(channel_name, msg_type_str, msg_field, sample_rate_str, layer_name) ==
    IF Blank(channel_name)
    THEN Refuse("Please select non-empty channel name.")
    ELSE IF Instantiate(msg_type_str) # None
    THEN Refuse("Tried to instantiate")
    ELSE IF ~HasAttr(msg_type_str, "utime")
    THEN Refuse("Plotted messages must have utime field!")
    ELSE IF ~HasAttr(msg_type_str, msg_field)
    THEN Refuse("Message does not have field")
    ELSE IF ParseFloat(sample_rate_str) = None
    THEN Refuse("Couldn't convert input into float.")
    ELSE IF Blank(layer_name)
    THEN Refuse("Please select non-empty layer name.")
    ELSE NewField(channel_name, msg_type_str, msg_field,
                  ParseFloat(sample_rate_str)[1], layer_name)

\* ConfigureTimeSeriesWidget.remove_field_widgets(key)
RemoveFieldWidgets(key) ==
    IF key \notin DOMAIN widgets \/ ~widgets[key]
    THEN UNCHANGED widgets
    ELSE widgets' = [widgets EXCEPT ![key] = FALSE]

\* remove_field that forgets self.lc.unsubscribe
MainRemoveField_KeepSubscription(key) ==
    IF key \notin DOMAIN sample_rates
    THEN [raised |-> "KeyError", sample_rates |-> sample_rates,
          last_updated |-> last_updated, config |-> config,
          subscribers |-> subscribers, lcSubs |-> lcSubs]
    ELSE [raised |-> "", sample_rates |-> Pop(sample_rates, key),
          last_updated |-> Pop(last_updated, key), config |-> Pop(config, key),
          subscribers |-> Pop(subscribers, key), lcSubs |-> lcSubs]

\* NuiScalarDataMainWindow.remove_field(key): the exception it raises ("" for
\* none) and the state it leaves
MainRemoveField(key) ==
    IF key \notin DOMAIN sample_rates
    THEN [raised |-> "KeyError", sample_rates |-> sample_rates,
          last_updated |-> last_updated, config |-> config,
          subscribers |-> subscribers, lcSubs |-> lcSubs]
    ELSE IF key \notin DOMAIN last_updated
    THEN [raised |-> "KeyError", sample_rates |-> Pop(sample_rates, key),
          last_updated |-> last_updated, config |-> config,
          subscribers |-> subscribers, lcSubs |-> lcSubs]
    ELSE IF key \notin DOMAIN config
    THEN [raised |-> "KeyError", sample_rates |-> Pop(sample_rates, key),
          last_updated |-> Pop(last_updated, key), config |-> config,
          subscribers |-> subscribers, lcSubs |-> lcSubs]
    ELSE IF key \notin DOMAIN subscribers
    THEN [raised |-> "KeyError", sample_rates |-> Pop(sample_rates, key),
          last_updated |-> Pop(last_updated, key), config |-> Pop(config, key),
          subscribers |-> subscribers, lcSubs |-> lcSubs]
    ELSE IF subscribers[key] \notin lcSubs
    THEN [raised |-> "ValueError", sample_rates |-> Pop(sample_rates, key),
          last_updated |-> Pop(last_updated, key), config |-> Pop(config, key),
          subscribers |-> subscribers, lcSubs |-> lcSubs]
    ELSE [raised |-> "", sample_rates |-> Pop(sample_rates, key),
          last_updated |-> Pop(last_updated, key), config |-> Pop(config, key),
          subscribers |-> Pop(subscribers, key),
          lcSubs |-> lcSubs \ {subscribers[key]}]

\* TimeSeriesPlotter.remove_field(key)
TsRemoveField(key) ==
    IF key \notin DOMAIN data
    THEN [raised |-> "KeyError", data |-> data, ylims |-> ylims,
          data_plots |-> data_plots, axes_ylim |-> axes_ylim]
    ELSE [raised |-> "", data |-> Pop(data, key), ylims |-> Pop(ylims, key),
          data_plots |-> Pop(data_plots, key), axes_ylim |-> Pop(axes_ylim, key)]

\* MapLayerPlotter.remove_field(key)
MapRemoveField(key) ==
    IF key \notin DOMAIN layers
    THEN [raised |-> "KeyError", layers |-> layers, mapLayers |-> mapLayers]
    ELSE IF layers[key] \notin DOMAIN mapLayers
    THEN [raised |-> "RuntimeError", layers |-> layers, mapLayers |-> mapLayers]
    ELSE [raised |-> "", layers |-> Pop(layers, key),
          mapLayers |-> Pop(mapLayers, layers[key])]

\* the remove_field signal of ConfigureTimeSeriesWidget: its four slots run in
\* the order they were connected
RemoveField(key) ==
    LET m == MainRemoveField(key)
        t == TsRemoveField(key)
        p == MapRemoveField(key)
    IN
    /\ Idle
    /\ RemoveFieldWidgets(key)
    /\ sample_rates' = m.sample_rates
    /\ last_updated' = m.last_updated
    /\ config' = m.config
    /\ subscribers' = m.subscribers
    /\ lcSubs' = m.lcSubs
    /\ data' = t.data
    /\ ylims' = t.ylims
    /\ data_plots' = t.data_plots
    /\ axes_ylim' = t.axes_ylim
    /\ layers' = p.layers
    /\ mapLayers' = p.mapLayers
    /\ last' = [Did("remove_field",
                     IF key \in DOMAIN config THEN "registered" ELSE "unregistered")
          EXCEPT
          !.raised =
              (IF m.raised = "" THEN {}
               ELSE {<<"NuiScalarDataMainWindow.remove_field", m.raised>>})
              \cup (IF t.raised = "" THEN {}
                    ELSE {<<"TimeSeriesPlotter.remove_field", t.raised>>})
              \cup (IF p.raised = "" THEN {}
                    ELSE {<<"MapLayerPlotter.remove_field", p.raised>>})]
    /\ UNCHANGED <<lon0, lat0, statexy_data, cursor_layer, viewVars, shutdown,
                   lcmPc, lcmMsg, eventQueue, otherVars>>

\* the keys of the model in the order yaml.safe_dump writes a mapping: sorted
SortedKeys == <<"CH/a", "CH/b">>

\* yaml.safe_dump(self.config): the text, as the list of its "key: [...]"
\* entries, sorted by key
SafeDump(cfg) ==
    LET present == SelectSeq(SortedKeys, LAMBDA k : k \in DOMAIN cfg)
    IN [i \in 1..Len(present) |-> <<present[i], cfg[present[i]]>>]

\* yaml.safe_load(config_str), as the items of the dict in its order: a key
\* that comes again in the text keeps its place and takes the later value
SafeLoad(text) ==
    LET first == {i \in 1..Len(text) :
                    \A j \in 1..(i - 1) : text[j][1] # text[i][1]}
        LastOf(k) == CHOOSE j \in 1..Len(text) :
                        /\ text[j][1] = k
                        /\ \A l \in (j + 1)..Len(text) : text[l][1] # k
        Pick[i \in 0..Len(text)] ==
            IF i = 0 THEN << >>
            ELSE IF i \in first
            THEN Append(Pick[i - 1], <<text[i][1], text[LastOf(text[i][1])][2]>>)
            ELSE Pick[i - 1]
    IN Pick[Len(text)]

\* NuiScalarDataMainWindow.closeEvent, with MapLayerPlotter.closeEvent: every
\* lc.unsubscribe is in a try block; the registry is written to the project
CloseEvent ==
    /\ Idle
    /\ shutdown' = TRUE
    /\ saved' = Some(SafeDump(config))
    /\ lcSubs' = (lcSubs \ {subscribers[k] : k \in DOMAIN subscribers})
                    \ MapSubscribers
    /\ last' = Did("closeEvent", "closed")
    /\ UNCHANGED <<mapVars, tsVars, config, sample_rates, last_updated,
                   subscribers, widgets, lcmPc, lcmMsg, eventQueue, histVars,
                   loaded_config, lockVars>>

\* NuiScalarDataPlugin.run after the window was closed: a new main window,
\* whose __init__ builds new plotters and a new LCM instance and reads the
\* project's entry; the layers of the project stay
Run ==
    /\ Idle /\ shutdown
    /\ lon0' = None /\ lat0' = None
    /\ statexy_data' = None
    /\ layers' = EmptyMap
    /\ data' = EmptyMap /\ ylims' = EmptyMap
    /\ data_plots' = EmptyMap /\ axes_ylim' = EmptyMap
    /\ right_click_t0' = None /\ right_click_t1' = None /\ time_limit' = None
    /\ xlim' = NewXlim
    /\ config' = EmptyMap /\ sample_rates' = EmptyMap /\ last_updated' = EmptyMap
    /\ subscribers' = EmptyMap
    /\ shutdown' = FALSE
    /\ widgets' = EmptyMap
    /\ lcSubs' = MapSubscribers
    /\ lcmPc' = "new" /\ lcmMsg' = None
    /\ eventQueue' = << >>
    /\ loaded_config' = (IF saved = None THEN << >> ELSE SafeLoad(saved[1]))
    /\ mainPc' = "init"
    /\ last' = Did("run", "loaded")
    /\ window' = FullWindow
    /\ UNCHANGED <<mapLayers, cursor_layer, saved, statexy_lock, mainLocal, offered>>

\* update_subscriptions that returns after the first entry
UpdateSubscriptions_FirstOnly ==
    /\ mainPc = "init" /\ loaded_config # << >>
    /\ LET e == Head(loaded_config)[2] IN AddField(e[1], e[2], e[3], e[4], e[5])
    /\ loaded_config' = << >>

\* update_subscriptions, one turn of its loop: add_field for the next entry
\* of loaded_config; an exception from add_field ends the loop
UpdateSubscriptions ==
    /\ mainPc = "init" /\ loaded_config # << >>
    /\ LET e == Head(loaded_config)[2] IN AddField(e[1], e[2], e[3], e[4], e[5])
    /\ loaded_config' = (IF last'.raised = {} THEN Tail(loaded_config) ELSE << >>)

\* the end of __init__ and NuiScalarDataMainWindow.run: the LCM thread starts;
\* an exception from update_subscriptions leaves no window
MwRun ==
    /\ mainPc = "init" /\ loaded_config = << >>
    /\ last.raised = {}
    /\ mainPc' = "idle"
    /\ lcmPc' = "handle"
    /\ last' = Did("run", "started")
    /\ UNCHANGED <<mapVars, tsVars, mainVars, saved, loaded_config, widgets,
                   lcSubs, lcmMsg, statexy_lock, mainLocal, eventQueue, histVars>>

\* ------------------------------------------------ TimeSeriesPlotter (view)
\* on_button_press_event for the right button at time x inside the axes
RightPress(x) ==
    /\ Idle
    /\ right_click_t0' = Some(x)
    /\ window' = (IF window.kind = "EXPLICIT" THEN [window EXCEPT !.a = x]
                  ELSE window)
    /\ last' = Did("on_button_press_event", "right")
    /\ UNCHANGED <<mapVars, data, ylims, data_plots, axes_ylim, right_click_t1,
                   time_limit, xlim, mainVars, widgets, lcmVars, eventQueue,
                   offered, saved, loaded_config, lockVars>>

\* on_button_release_event for the right button at time x inside the axes
RightRelease(x) ==
    /\ Idle
    /\ IF right_click_t0 # None
       THEN /\ right_click_t1' = Some(x)
            /\ window' = [Explicit(right_click_t0[1], x) EXCEPT
                              !.after = window.kind]
            /\ last' = Did("on_button_release_event", "right")
       ELSE /\ UNCHANGED <<right_click_t1, window>>
            /\ last' = Did("on_button_release_event", "unhandled")
    /\ UNCHANGED <<mapVars, data, ylims, data_plots, axes_ylim, right_click_t0,
                   time_limit, xlim, mainVars, widgets, lcmVars, eventQueue,
                   offered, saved, loaded_config, lockVars>>

\* set_time_limits that keeps the dragged range
SetTimeLimits_KeepsDrag(timestamp) ==
    /\ Idle
    /\ time_limit' = timestamp
    /\ window' = [Typed(timestamp) EXCEPT !.after = window.kind]
    /\ last' = Did("set_time_limits", "set")
    /\ UNCHANGED <<mapVars, data, ylims, data_plots, axes_ylim, right_click_t0,
                   right_click_t1, xlim, mainVars, widgets, lcmVars, eventQueue,
                   offered, saved, loaded_config, lockVars>>

\* set_time_limits(timestamp), the slot of time_limits_changed
SetTimeLimits(timestamp) ==
    /\ Idle
    /\ time_limit' = timestamp
    /\ right_click_t0' = None
    /\ right_click_t1' = None
    /\ window' = [Typed(timestamp) EXCEPT !.after = window.kind]
    /\ last' = Did("set_time_limits", "set")
    /\ UNCHANGED <<mapVars, data, ylims, data_plots, axes_ylim, xlim, mainVars,
                   widgets, lcmVars, eventQueue, offered, saved, loaded_config,
                   lockVars>>

\* set_ylim(key, ymin, ymax), the slot of ylim_changed, which the row of a
\* field emits
SetYlim(key, ymin, ymax) ==
    /\ Idle
    /\ key \in DOMAIN widgets /\ widgets[key]
    /\ ylims' = Put(ylims, key, <<ymin, ymax>>)
    /\ last' = Did("set_ylim", key)
    /\ UNCHANGED <<mapVars, data, data_plots, axes_ylim, viewVars, mainVars,
                   widgets, lcmVars, eventQueue, otherVars>>

\* maybe_refresh without the try around set_xlim
MaybeRefresh_NoExcept ==
    /\ Idle
    /\ LET times == UNION {Column(data[k], 1) : k \in {j \in DOMAIN data : data[j] # None}}
       IN IF (right_click_t0 # None /\ right_click_t1 # None) \/ times # {}
          THEN /\ xlim' = TimeBounds(times)
               /\ last' = Did("maybe_refresh", "set_xlim")
          ELSE /\ UNCHANGED xlim
               /\ last' = [Did("maybe_refresh", "raised") EXCEPT
                              !.raised = {"ValueError"}]
    /\ UNCHANGED <<mapVars, data, ylims, data_plots, axes_ylim, right_click_t0,
                   right_click_t1, time_limit, mainVars, widgets, lcmVars,
                   eventQueue, otherVars>>

\* maybe_refresh, the slot of update_timer: with no dragged range and no
\* data the bounds are infinite, set_xlim raises and the except clause passes
MaybeRefresh ==
    /\ Idle
    /\ LET times == UNION {Column(data[k], 1) : k \in {j \in DOMAIN data : data[j] # None}}
       IN IF (right_click_t0 # None /\ right_click_t1 # None) \/ times # {}
          THEN /\ xlim' = TimeBounds(times)
               /\ last' = Did("maybe_refresh", "set_xlim")
          ELSE /\ UNCHANGED xlim
               /\ last' = Did("maybe_refresh", "no usable range")
    /\ UNCHANGED <<mapVars, data, ylims, data_plots, axes_ylim, right_click_t0,
                   right_click_t1, time_limit, mainVars, widgets, lcmVars,
                   eventQueue, otherVars>>

\* ------------------------------------------------ ConfigureTimeLimitsWidget
\* float(time_str), in ticks, or None when it raises
ParseNumber(time_str) ==
    CASE time_str = "0.2" -> Some(2)
      [] time_str = "-0.2" -> Some(-2)
      [] OTHER -> None

\* strptime(time_str + "+00:00", "%Y-%m-%d %H:%M:%S%z").timestamp(), in ticks,
\* or None when it raises
ParseDateTime(time_str) ==
    CASE time_str = "1970-01-01 00:00:01" -> Some(TicksPerSec)
      [] time_str = "1969-12-31 23:59:59" -> Some(-TicksPerSec)
      [] OTHER -> None

\* the mode the class documents for a text: all data for a blank box, all
\* data since a date and time, a moving window of the last N seconds
WidgetWindow(time_str) ==
    IF ParseDateTime(time_str) # None THEN Since(ParseDateTime(time_str)[1])
    ELSE IF ParseNumber(time_str) # None THEN Trailing(Abs(ParseNumber(time_str)[1]))
    ELSE FullWindow

\* the value handle_input emits for a text
Timestamp(time_str) ==
    LET delta == ParseNumber(time_str)
        first == IF delta = None THEN None
                 ELSE IF delta[1] > 0 THEN Some(-1 * delta[1]) ELSE delta
        dt == ParseDateTime(time_str)
    IN IF dt = None THEN first ELSE dt

\* handle_input on editingFinished: time_limits_changed reaches
\* set_time_limits; window records the mode the widget documents
HandleInput(time_str) ==
    /\ Idle
    /\ time_limit' = Timestamp(time_str)
    /\ right_click_t0' = None
    /\ right_click_t1' = None
    /\ window' = [WidgetWindow(time_str) EXCEPT !.after = window.kind]
    /\ last' = Did("handle_input", time_str)
    /\ UNCHANGED <<mapVars, data, ylims, data_plots, axes_ylim, xlim, mainVars,
                   widgets, lcmVars, eventQueue, offered, saved, loaded_config,
                   lockVars>>

\* the clear button of a field's row: clear_field(key) reaches
\* MapLayerPlotter.clear_field, which truncates the layer the key plots on;
\* TimeSeriesPlotter has no slot for it
ClearField(key) ==
    /\ Idle
    /\ key \in DOMAIN widgets
    /\ IF key \notin DOMAIN layers
       THEN /\ UNCHANGED mapLayers
            /\ last' = [Did("clear_field", key) EXCEPT
                   !.raised = {<<"MapLayerPlotter.clear_field", "KeyError">>}]
       ELSE IF layers[key] \notin DOMAIN mapLayers
       THEN /\ UNCHANGED mapLayers
            /\ last' = [Did("clear_field", key) EXCEPT
                   !.raised = {<<"MapLayerPlotter.clear_field", "RuntimeError">>}]
       ELSE /\ mapLayers' = [mapLayers EXCEPT ![layers[key]].features = << >>]
            /\ last' = Did("clear_field", key)
    /\ UNCHANGED <<lon0, lat0, statexy_data, layers, cursor_layer, tsVars,
                   mainVars, widgets, lcmVars, eventQueue, otherVars>>

\* new_data delivered to update_data
NewData(key, tt, val) ==
    /\ Idle
    /\ UpdateData(key, tt, val)
    /\ UNCHANGED <<widgets, lcmVars, eventQueue, otherVars>>

\* ------------------------------------------- statexy_lock, statement by statement
\* handle_statexy up to its with statement: decode, then take statexy_lock
StatexyEnter(channel, utime, x, y) ==
    /\ lcmPc = "handle"
    /\ \E s \in lcSubs : s.channel = channel
    /\ statexy_lock = ""
    /\ statexy_lock' = "lcm"
    /\ lcmPc' = "statexy"
    /\ lcmMsg' = Some(<<utime, x, y>>)
    /\ last' = Did("handle_statexy", "locked")
    /\ UNCHANGED <<mapVars, tsVars, mainVars, saved, loaded_config, widgets,
                   lcSubs, mainPc, mainLocal, eventQueue, histVars>>

\* handle_statexy, the body of the with statement and its exit
StatexyLeave ==
    /\ lcmPc = "statexy"
    /\ statexy_data' = AppendStatexy(statexy_data, lcmMsg[1][1], lcmMsg[1][2],
                                     lcmMsg[1][3])
    /\ statexy_lock' = ""
    /\ lcmPc' = SpinLcm
    /\ lcmMsg' = None
    /\ last' = Did("handle_statexy",
                    IF statexy_data' # statexy_data THEN "appended" ELSE "stale")
    /\ UNCHANGED <<lon0, lat0, layers, mapLayers, cursor_layer, tsVars, mainVars,
                   saved, loaded_config, widgets, lcSubs, mainPc, mainLocal,
                   eventQueue, histVars>>

\* update_cursor / update_data that read the track without statexy_lock
MapEnter_NoLock(op, key, tt, val) ==
    /\ Idle
    /\ lon0 # None
    /\ op = "update_data" =>
          /\ key \in DOMAIN layers
          /\ layers[key] \in DOMAIN mapLayers
          /\ Len(mapLayers[layers[key]].features) < MaxSamples
    /\ mainPc' = "interp"
    /\ mainLocal' = Some([op |-> op, key |-> key, tt |-> tt, val |-> val,
                          xx |-> None, yy |-> None, geom |-> None])
    /\ last' = Did(op, "locked")
    /\ UNCHANGED <<mapVars, tsVars, mainVars, saved, loaded_config, widgets,
                   lcmVars, statexy_lock, eventQueue, histVars>>

\* MapLayerPlotter.update_cursor(tt) and update_data(key, tt, val) up to their
\* with statement, past the origin and layer tests: take statexy_lock
MapEnter(op, key, tt, val) ==
    /\ Idle
    /\ lon0 # None
    /\ op = "update_data" =>
          /\ key \in DOMAIN layers
          /\ layers[key] \in DOMAIN mapLayers
          /\ Len(mapLayers[layers[key]].features) < MaxSamples
    /\ statexy_lock = ""
    /\ statexy_lock' = "main"
    /\ mainPc' = "interp"
    /\ mainLocal' = Some([op |-> op, key |-> key, tt |-> tt, val |-> val,
                          xx |-> None, yy |-> None, geom |-> None])
    /\ last' = Did(op, "locked")
    /\ UNCHANGED <<mapVars, tsVars, mainVars, saved, loaded_config, widgets,
                   lcmVars, eventQueue, histVars>>

\* the interpolation between acquire() and release() with no try statement:
\* the exception of an empty track leaves the lock taken
MapInterp_KeepsLockOnRaise ==
    /\ mainPc = "interp"
    /\ IF statexy_data = None
       THEN /\ mainPc' = "idle"
            /\ mainLocal' = None
            /\ UNCHANGED statexy_lock
            /\ last' = [Did(mainLocal[1].op, "") EXCEPT
                   !.raised = {<<"MapLayerPlotter." \o mainLocal[1].op, "TypeError">>},
                   !.track_read = TRUE]
       ELSE /\ mainPc' = "convert"
            /\ statexy_lock' = ""
            /\ mainLocal' = Some([mainLocal[1] EXCEPT
                   !.xx = Some(Interp(mainLocal[1].tt, statexy_data, 2)),
                   !.yy = Some(Interp(mainLocal[1].tt, statexy_data, 3))])
            /\ last' = [Did(mainLocal[1].op, "interpolated") EXCEPT
                   !.track_read = TRUE]
    /\ UNCHANGED <<mapVars, tsVars, mainVars, saved, loaded_config, widgets,
                   lcmVars, eventQueue, histVars>>

\* the body of the with statement, the two np.interp calls, and its exit;
\* with no track the subscript raises and the slot ends
MapInterp ==
    /\ mainPc = "interp"
    /\ statexy_lock' = ""
    /\ IF statexy_data = None
       THEN /\ mainPc' = "idle"
            /\ mainLocal' = None
            /\ last' = [Did(mainLocal[1].op, "") EXCEPT
                   !.raised = {<<"MapLayerPlotter." \o mainLocal[1].op, "TypeError">>},
                   !.track_read = TRUE]
       ELSE /\ mainPc' = "convert"
            /\ mainLocal' = Some([mainLocal[1] EXCEPT
                   !.xx = Some(Interp(mainLocal[1].tt, statexy_data, 2)),
                   !.yy = Some(Interp(mainLocal[1].tt, statexy_data, 3))])
            /\ last' = [Did(mainLocal[1].op, "interpolated") EXCEPT
                   !.track_read = TRUE]
    /\ UNCHANGED <<mapVars, tsVars, mainVars, saved, loaded_config, widgets,
                   lcmVars, eventQueue, histVars>>

\* xy2ll and the geometry of the feature, after the with statement
MapConvert ==
    /\ mainPc = "convert"
    /\ mainPc' = "add_feature"
    /\ mainLocal' = Some([mainLocal[1] EXCEPT
           !.geom = Some(XY2LL(mainLocal[1].xx[1], mainLocal[1].yy[1],
                               lat0[1], lon0[1]))])
    /\ last' = Did(mainLocal[1].op, "converted")
    /\ UNCHANGED <<mapVars, tsVars, mainVars, saved, loaded_config, widgets,
                   lcmVars, statexy_lock, eventQueue, histVars>>

\* the layer update: the cursor layer's feature is replaced, or the feature
\* is added to the field's layer
MapAddFeature ==
    /\ mainPc = "add_feature"
    /\ LET l == mainLocal[1] IN
       IF l.op = "update_cursor"
       THEN /\ cursor_layer' = << [geom |-> l.geom[1], t |-> l.tt] >>
            /\ last' = Did(l.op, "moved")
            /\ UNCHANGED mapLayers
       ELSE /\ UNCHANGED cursor_layer
            /\ IF l.key \in DOMAIN layers /\ layers[l.key] \in DOMAIN mapLayers
               THEN /\ mapLayers' = [mapLayers EXCEPT
                          ![layers[l.key]].features =
                              Append(mapLayers[layers[l.key]].features,
                                     [geom |-> l.geom[1], x |-> l.xx[1],
                                      y |-> l.yy[1], t |-> l.tt, val |-> l.val])]
                    /\ last' = Did(l.op, "added")
               ELSE /\ UNCHANGED mapLayers
                    /\ last' = [Did(l.op, "") EXCEPT
                           !.raised = {<<"MapLayerPlotter.update_data",
                                         "RuntimeError">>}]
    /\ mainPc' = "idle"
    /\ mainLocal' = None
    /\ UNCHANGED <<lon0, lat0, statexy_data, layers, tsVars, mainVars, saved,
                   loaded_config, widgets, lcmVars, statexy_lock, eventQueue,
                   histVars>>

\* the Qt event loop delivers the oldest queued signal to its slot
DeliverEvent ==
    /\ Idle
    /\ eventQueue # << >>
    /\ LET e == Head(eventQueue) IN
         IF e.sig = "received_origin"
         THEN /\ InitializeOrigin(e.a, e.b)
              /\ last' = Did("initialize_origin", "set")
              /\ UNCHANGED <<tsVars, mainVars>>
         ELSE UpdateData(e.key, e.a, e.b)
    /\ eventQueue' = Tail(eventQueue)
    /\ UNCHANGED <<widgets, lcmVars, otherVars>>

\* ---------------------------------------------------------- specifications
StatexyTimes == 0..MaxTime
Positions == {<<0, 1>>, <<1, 0>>}
Origins == {<<-70, 42>>, <<10, 20>>}
\* the time the user clicks on the plot
CursorTimes == {1}

\* the layer names the form is given for a field: "a" goes to L1, "b" to
\* the same layer or to another
LayersFor(msg_field) == IF msg_field = "a" THEN {"L1"} ELSE LayerNames

\* Navigation in focus: the whole plugin with both position sources, two
\* positions, two origins and cursor queries; one field at 5 Hz, whose
\* samples at MaxTime pass the rate limiter
NextNav ==
    \/ \E c \in StatexyChannels, t \in StatexyTimes, p \in Positions :
          HandleStatexy(c, t, p[1], p[2])
    \/ \E o \in Origins : DispatchDiveIni(o)
    \/ HandleDiveIni
    \/ \E h \in FieldSubs, v \in Vals : HandleData(h, MaxTime, v)
    \/ DeliverEvent
    \/ \E t \in CursorTimes : UpdateCursor(t)
    \/ \E c \in Channels, ty \in MsgTypes, n \in LayersFor("a") :
          NewField(c, ty, "a", 5, n)
    \/ \E k \in Keys : RemoveField(k)
    \/ CloseEvent

SpecNav == Init /\ [][NextNav]_vars

\* The registry in focus: two fields at 5 Hz, on one layer or on two, started
\* in two navigation states SpecNav reaches: no origin, and an origin with a
\* track (SpecNav covers an origin without a track)
InitNav(origin, track) ==
    /\ lon0 = (IF origin = None THEN None ELSE Some(origin[1][1]))
    /\ lat0 = (IF origin = None THEN None ELSE Some(origin[1][2]))
    /\ statexy_data = track
    /\ lcSubs = (IF origin = None THEN MapSubscribers
                 ELSE MapSubscribers \ {SubDiveIni})

\* the plugin just started, but for the navigation state
InitPlugin ==
    /\ layers = EmptyMap /\ mapLayers = EmptyMap
    /\ cursor_layer = << >>
    /\ data = EmptyMap /\ ylims = EmptyMap
    /\ data_plots = EmptyMap /\ axes_ylim = EmptyMap
    /\ right_click_t0 = None /\ right_click_t1 = None /\ time_limit = None
    /\ xlim = NewXlim
    /\ saved = None /\ loaded_config = << >>
    /\ statexy_lock = "" /\ mainPc = "idle" /\ mainLocal = None
    /\ config = EmptyMap /\ sample_rates = EmptyMap /\ last_updated = EmptyMap
    /\ subscribers = EmptyMap
    /\ shutdown = FALSE
    /\ widgets = EmptyMap
    /\ lcmPc = "handle" /\ lcmMsg = None
    /\ eventQueue = << >>
    /\ last = NoOp
    /\ offered = << >>
    /\ window = FullWindow

InitRegistry ==
    /\ \/ InitNav(None, None)
       \/ InitNav(Some(<<-70, 42>>), << <<0, 0, 1>> >>)
    /\ InitPlugin

\* utime of a scalar message: the 5 Hz limiter accepts the first sample with
\* it and drops the next
SampleTimes == {MaxTime}

Next ==
    \/ \E h \in FieldSubs, t \in SampleTimes, v \in Vals : HandleData(h, t, v)
    \/ DeliverEvent
    \/ \E c \in Channels, ty \in MsgTypes, f \in Fields :
          \E n \in LayersFor(f) : NewField(c, ty, f, 5, n)
    \/ \E k \in Keys : RemoveField(k)
    \/ CloseEvent

Spec == InitRegistry /\ [][Next]_vars

\* Restoring in focus: the plugin is started on a project whose entry is
\* absent or was written by hand, with an entry under the key CH/b whose
\* tuple names the field a; fields are added at 2 Hz or 5 Hz and removed, the
\* window is closed and the plugin is started again
HandWritten ==
    << <<"CH/a", <<"CH", "pkg.msg_t", "a", 5, "L1">>>>,
       <<"CH/b", <<"CH", "pkg.msg_t", "a", 2, "L2">>>> >>

InitRestore ==
    /\ lon0 = None /\ lat0 = None
    /\ statexy_data = None
    /\ layers = EmptyMap /\ mapLayers = EmptyMap
    /\ cursor_layer = << >>
    /\ data = EmptyMap /\ ylims = EmptyMap
    /\ data_plots = EmptyMap /\ axes_ylim = EmptyMap
    /\ right_click_t0 = None /\ right_click_t1 = None /\ time_limit = None
    /\ xlim = NewXlim
    /\ config = EmptyMap /\ sample_rates = EmptyMap /\ last_updated = EmptyMap
    /\ subscribers = EmptyMap
    /\ shutdown = FALSE
    /\ saved \in {None, Some(HandWritten)}
    /\ loaded_config = (IF saved = None THEN << >> ELSE SafeLoad(saved[1]))
    /\ widgets = EmptyMap
    /\ lcSubs = MapSubscribers
    /\ lcmPc = "new" /\ lcmMsg = None
    /\ statexy_lock = "" /\ mainPc = "init" /\ mainLocal = None
    /\ eventQueue = << >>
    /\ last = NoOp
    /\ offered = << >>
    /\ window = FullWindow

RestoreRates == {2, 5}

NextRestore ==
    \/ \E c \in Channels, ty \in MsgTypes, f \in Fields, r \in RestoreRates :
          \E n \in LayersFor(f) : NewField(c, ty, f, r, n)
    \/ \E k \in Keys : RemoveField(k)
    \/ CloseEvent
    \/ Run
    \/ UpdateSubscriptions
    \/ MwRun

SpecRestore == InitRestore /\ [][NextRestore]_vars

\* A stale entry in focus: as SpecRestore, on a project whose entry is absent
\* or names a message package that is not installed on this machine
StaleEntry == << <<"CH/a", <<"CH", "nopkg.msg_t", "a", 5, "L1">>>> >>

InitStale ==
    /\ lon0 = None /\ lat0 = None
    /\ statexy_data = None
    /\ layers = EmptyMap /\ mapLayers = EmptyMap
    /\ cursor_layer = << >>
    /\ data = EmptyMap /\ ylims = EmptyMap
    /\ data_plots = EmptyMap /\ axes_ylim = EmptyMap
    /\ right_click_t0 = None /\ right_click_t1 = None /\ time_limit = None
    /\ xlim = NewXlim
    /\ config = EmptyMap /\ sample_rates = EmptyMap /\ last_updated = EmptyMap
    /\ subscribers = EmptyMap
    /\ shutdown = FALSE
    /\ saved \in {None, Some(StaleEntry)}
    /\ loaded_config = (IF saved = None THEN << >> ELSE SafeLoad(saved[1]))
    /\ widgets = EmptyMap
    /\ lcSubs = MapSubscribers
    /\ lcmPc = "new" /\ lcmMsg = None
    /\ statexy_lock = "" /\ mainPc = "init" /\ mainLocal = None
    /\ eventQueue = << >>
    /\ last = NoOp
    /\ offered = << >>
    /\ window = FullWindow

SpecStale == InitStale /\ [][NextRestore]_vars

\* statexy_lock in focus: the LCM thread in handle_statexy and the main thread
\* in update_cursor and MapLayerPlotter.update_data, statement by statement,
\* with one field on one layer
LockTimes == {0, 1}

NextLock ==
    \/ \E c \in StatexyChannels, t \in LockTimes, p \in Positions :
          StatexyEnter(c, t, p[1], p[2])
    \/ StatexyLeave
    \/ \E o \in {<<-70, 42>>} : DispatchDiveIni(o)
    \/ HandleDiveIni
    \/ DeliverEvent
    \/ \E n \in LayersFor("a") : NewField("CH", "pkg.msg_t", "a", 5, n)
    \/ \E op \in {"update_cursor", "update_data"}, t \in CursorTimes, v \in Vals :
          MapEnter(op, Key("CH", "a"), t, v)
    \/ MapInterp
    \/ MapConvert
    \/ MapAddFeature

SpecLock == Init /\ [][NextLock]_vars

\* SpecLock with the scheduling of the two threads: a thread inside its with
\* statement, where nothing blocks, goes on to the end of it
SpecLockFair == SpecLock /\ WF_vars(StatexyLeave) /\ WF_vars(MapInterp)

\* Shutdown in focus: the LCM thread with the navigation messages, and the
\* window closed at any moment. A handler that has started runs to its end;
\* nothing makes a message arrive.
NextShutdown ==
    \/ \E c \in StatexyChannels, t \in StatexyTimes, p \in Positions :
          HandleStatexy(c, t, p[1], p[2])
    \/ \E o \in Origins : DispatchDiveIni(o)
    \/ HandleDiveIni
    \/ DeliverEvent
    \/ CloseEvent

SpecShutdown == Init /\ [][NextShutdown]_vars /\ WF_vars(HandleDiveIni)

\* Malformed messages in focus: every channel carries well-formed messages
\* and messages its handler cannot read; one field at 5 Hz
NextMalformed ==
    \/ \E c \in StatexyChannels, t \in LockTimes, p \in Positions :
          HandleStatexy(c, t, p[1], p[2])
    \/ \E c \in StatexyChannels : HandleStatexyBad(c)
    \/ \E o \in Origins : DispatchDiveIni(o)
    \/ HandleDiveIni
    \/ HandleDiveIniBad
    \/ \E h \in FieldSubs, v \in Vals : HandleData(h, MaxTime, v)
    \/ \E h \in FieldSubs, f \in DataFaults : HandleDataBad(h, f)
    \/ DeliverEvent
    \/ \E n \in LayersFor("a") : NewField("CH", "pkg.msg_t", "a", 5, n)

SpecMalformed == Init /\ [][NextMalformed]_vars

\* The view window in focus: one field at 5 Hz, sent samples at the given
\* times and values; ranges are dragged between the given times, a trailing
\* window, a start time or no limit is typed
ViewTimes == {2, 4, 6}
ViewVals == {3, 9}
DragTimes == {4, 6}
TimeLimits == {None, Some(-2), Some(4)}

NextView ==
    \/ NewField("CH", "pkg.msg_t", "a", 5, "L1")
    \/ \E t \in ViewTimes, v \in ViewVals : NewData(Key("CH", "a"), t, v)
    \/ \E x \in DragTimes : RightPress(x)
    \/ \E x \in DragTimes : RightRelease(x)
    \/ \E ts \in TimeLimits : SetTimeLimits(ts)

SpecView == Init /\ [][NextView]_vars

\* The y range in focus: two fields at 5 Hz on their own layers; field a is
\* sent three samples and has y bounds set, field b is sent one sample; a
\* trailing window or no limit is typed
YSamples(msg_field) ==
    IF msg_field = "a" THEN {<<2, 3>>, <<4, 9>>, <<6, 5>>} ELSE {<<4, 7>>}
YBounds == {None, Some(4)}
YTimeLimits == {None, Some(-2)}

NextYRange ==
    \/ \E f \in Fields : NewField("CH", "pkg.msg_t", f, 5, IF f = "a" THEN "L1" ELSE "L2")
    \/ \E f \in Fields : \E s \in YSamples(f) : NewData(Key("CH", f), s[1], s[2])
    \/ \E ts \in YTimeLimits : SetTimeLimits(ts)
    \/ \E ymin \in YBounds, ymax \in YBounds : SetYlim(Key("CH", "a"), ymin, ymax)

SpecYRange == Init /\ [][NextYRange]_vars

\* Nothing to show: one field at 5 Hz with its y bounds unset, sent the
\* samples of field a; a trailing window, a start time after the last sample
\* or no limit is typed, a range is dragged, and the timer refreshes the plot
EmptyTimeLimits == {None, Some(-2), Some(7)}

NextEmpty ==
    \/ NewField("CH", "pkg.msg_t", "a", 5, "L1")
    \/ \E s \in YSamples("a") : NewData(Key("CH", "a"), s[1], s[2])
    \/ \E ts \in EmptyTimeLimits : SetTimeLimits(ts)
    \/ \E x \in DragTimes : RightPress(x)
    \/ \E x \in DragTimes : RightRelease(x)
    \/ MaybeRefresh

SpecEmpty == Init /\ [][NextEmpty]_vars

\* Clearing in focus: an origin and a track are known; two fields at 5 Hz, on
\* one layer or on two, are added, sent samples, cleared and removed
ClearTimes == {2, 4}

InitClear == InitRegistry /\ lon0 # None

NextClear ==
    \/ \E f \in Fields, n \in LayerNames : NewField("CH", "pkg.msg_t", f, 5, n)
    \/ \E f \in Fields, t \in ClearTimes : NewData(Key("CH", f), t, 3)
    \/ \E f \in Fields : ClearField(Key("CH", f))
    \/ \E f \in Fields : RemoveField(Key("CH", f))

SpecClear == InitClear /\ [][NextClear]_vars

\* The buffers in focus: field a at 5 Hz is added, sent its samples, cleared
\* and removed, field b likewise with its one sample; a trailing window or no
\* limit is typed and y bounds are set for field a
NextSeries ==
    \/ \E f \in Fields : NewField("CH", "pkg.msg_t", f, 5, "L1")
    \/ \E f \in Fields : \E s \in YSamples(f) : NewData(Key("CH", f), s[1], s[2])
    \/ \E ts \in YTimeLimits : SetTimeLimits(ts)
    \/ \E ymax \in YBounds : SetYlim(Key("CH", "a"), None, ymax)
    \/ \E f \in Fields : ClearField(Key("CH", f))
    \/ \E f \in Fields : RemoveField(Key("CH", f))

SpecSeries == InitClear /\ [][NextSeries]_vars

\* Interpolation in focus: the origin is known; position messages at 10, 20
\* and 30 with x and y in {0, 10, 20} build the track, the cursor is placed
\* before, on, between and after the rows, and a field at 5 Hz is sent
\* samples before, between and after them
TrackTimes == {10, 20, 30}
TrackPositions == {<<0, 20>>, <<10, 10>>, <<20, 0>>}
QueryTimes == {5, 10, 15, 24, 30, 35}
InterpSampleTimes == {5, 24, 35}

InitInterp == InitNav(Some(<<-70, 42>>), None) /\ InitPlugin

NextInterp ==
    \/ \E t \in TrackTimes, p \in TrackPositions :
          HandleStatexy("FIBER_STATEXY", t, p[1], p[2])
    \/ \E t \in QueryTimes : UpdateCursor(t)
    \/ NewField("CH", "pkg.msg_t", "a", 5, "L1")
    \/ \E t \in InterpSampleTimes : NewData(Key("CH", "a"), t, 3)

SpecInterp == InitInterp /\ [][NextInterp]_vars

\* The projection in focus: ll2xy on longitudes up to 600 degrees either way,
\* and xy2ll followed by ll2xy up to 200 km from the origin, with an origin
\* at mid longitude and one on each side of the antimeridian
ProjOrigins == {<<-70, 42>>, <<179, 0>>, <<-179, -60>>}
ProjLats == {-60, 0, 42}
ProjLons == {-600, -541, -540, -360, -181, -180, -70, 0, 179, 180, 181, 360,
             540, 541, 600}
ProjLengths == {-2000, -10, 0, 10, 2000}

NextProjection ==
    \/ \E lat \in ProjLats, lon \in ProjLons, o \in ProjOrigins :
          CallLL2XY(lat, lon, o[2], o[1])
    \/ \E xx \in ProjLengths, yy \in ProjLengths, o \in ProjOrigins :
          CallXY2LLThenLL2XY(xx, yy, o[2], o[1])

SpecProjection == Init /\ [][NextProjection]_vars

\* The form in focus: the Add Field button is clicked on every combination
\* of a blank or good channel, a type that splits, imports and instantiates
\* or does not, with or without utime, a field the type has or not, a rate
\* text that is a number or not, and a blank or good layer name; fields are
\* removed again
FormChannels == {"", "CH"}
FormTypes == {"pkg.msg_t", "pkg.plain_t", "pkg.gone_t", "nopkg.msg_t", "msg_t"}
FormFields == {"a", "b", "c"}
FormRates == {"5", "-10", "abc"}
FormLayers == {" ", "L1"}

NextForm ==
    \/ \E ch \in FormChannels, ty \in FormTypes, f \in FormFields,
          r \in FormRates, n \in FormLayers : AddButtonClicked(ch, ty, f, r, n)
    \/ \E k \in Keys : RemoveField(k)

SpecForm == Init /\ [][NextForm]_vars

\* The time window box in focus: one field at 5 Hz sent samples at 0.8, 1.0
\* and 1.2 s; the box is left blank or given a word, a number of seconds, or
\* a date and time after or before the epoch
TimeTexts == {"", "abc", "0.2", "-0.2", "1970-01-01 00:00:01",
              "1969-12-31 23:59:59"}
TimeBoxTimes == {8, 10, 12}

NextTimeBox ==
    \/ NewField("CH", "pkg.msg_t", "a", 5, "L1")
    \/ \E t \in TimeBoxTimes : NewData(Key("CH", "a"), t, 3)
    \/ \E text \in TimeTexts : HandleInput(text)

SpecTimeBox == Init /\ [][NextTimeBox]_vars

\* The rate limiter in focus: one field, at 2 Hz or at -10 Hz, and the
\* new_data signal delivered to update_data for samples at the given times
RateTimes == {0, 1, 6, 9, 12}

\* new_data.emit(key, tt, vv) in handle_data and its slot update_data, as one
\* step that records the sample time offered
OfferSample(key, tt, val) ==
    /\ Idle
    /\ Len(offered) < MaxOffered
    /\ UpdateData(key, tt, val)
    /\ offered' = Append(offered, tt)
    /\ UNCHANGED window
    /\ UNCHANGED <<widgets, lcmVars, eventQueue, saved, loaded_config, lockVars>>

NextRate ==
    \/ \E r \in {-10, 2} : NewField("CH", "pkg.msg_t", "a", r, "L1")
    \/ \E t \in RateTimes, v \in Vals : OfferSample(Key("CH", "a"), t, v)

SpecRate == Init /\ [][NextRate]_vars

\* ------------------------------------------------------------- navigation
IsPrefix(s, t) == Len(s) <= Len(t) /\ SubSeq(t, 1, Len(s)) = s

MapHandlers == {"MapLayerPlotter.update_cursor", "MapLayerPlotter.update_data"}

\* C1: the times of the position track are strictly increasing, whichever of
\* the two STATEXY channels each row came from.
C1_TrackTimesStrictlyIncrease ==
    \A i \in 1..(Len(statexy_data) - 1) :
        statexy_data[i][1] < statexy_data[i + 1][1]

\* rows were appended and a message was rejected after them
C1_Witness ==
    /\ Len(statexy_data) >= 3
    /\ last.op = "handle_statexy" /\ last.result = "stale"

\* C2: a STATEXY message whose time is not after the newest row leaves the
\* track as it is, and no step removes or rewrites a row of the track.
C2_StaleMessageDropped ==
    [][/\ IsPrefix(statexy_data, statexy_data')
       /\ \A c \in StatexyChannels, t \in StatexyTimes, p \in Positions :
            (/\ statexy_data # None
             /\ t <= statexy_data[Len(statexy_data)][1]
             /\ HandleStatexy(c, t, p[1], p[2]))
            => statexy_data' = statexy_data]_vars

\* a stale message has just been handled with two rows in the track
C2_Witness ==
    /\ Len(statexy_data) = 2
    /\ last.op = "handle_statexy" /\ last.result = "stale"

\* C3: while the origin is unset, update_cursor and update_data do not read the
\* track, raise nothing from the map plotter and add no point to any layer;
\* update_cursor reports that the origin is not initialized.
C3_NoGeolocationBeforeOrigin ==
    [][(lon0 = None /\ last'.op \in {"update_cursor", "update_data"})
       => /\ ~last'.track_read
          /\ mapLayers' = mapLayers
          /\ cursor_layer' = cursor_layer
          /\ \A e \in last'.raised : e[1] \notin MapHandlers
          /\ last'.op = "update_cursor" => last'.result = "Origin not initialized"]_vars

\* a sample passed the rate limiter with a track but no origin
C3_Witness ==
    /\ lon0 = None /\ statexy_data # None
    /\ last.op = "update_data" /\ last.result = "accepted"
    /\ layers # EmptyMap

\* C4: with the origin set and an empty track, update_cursor and an accepted
\* update_data let no exception out and add no point.
C4_NotReadyIsRecoverable ==
    [][(/\ lon0 # None /\ statexy_data = None
        /\ \/ last'.op = "update_cursor"
           \/ last'.op = "update_data" /\ last'.result = "accepted")
       => /\ last'.raised = {}
          /\ mapLayers' = mapLayers
          /\ cursor_layer' = cursor_layer]_vars

\* C5: once set, the origin never changes, whatever DIVE_INI messages follow.
C5_OriginSetOnce ==
    [][lon0 # None => (lon0' = lon0 /\ lat0' = lat0)]_vars

\* the origin is set and a later DIVE_INI message found no subscriber
C5_Witness ==
    /\ lon0 # None /\ lat0 # None
    /\ last.op = "lc.handle" /\ last.result = "no subscriber"

\* --------------------------------------------------------------- registry
\* the times of a field's series
TimesOf(series) == [i \in 1..Len(series) |-> series[i][1]]

\* the active subscriptions that feed a key
ActiveSubs(subs, key) == {h \in subs : h.id # 0 /\ Key(h.channel, h.msg_field) = key}

\* C6: the times of the samples a field accepted are strictly increasing, and
\* each is at least one period after the one accepted before it.
C6_AcceptedTimesStrictlyIncrease ==
    \A k \in DOMAIN data \cap DOMAIN sample_rates :
        \A i \in 1..(Len(data[k]) - 1) :
            /\ data[k][i][1] < data[k][i + 1][1]
            /\ ~Decimated(data[k][i + 1][1] - data[k][i][1], sample_rates[k])

\* C7: a field at 2 Hz offered samples at 0.0, 0.1, 0.6, 0.9 and 1.2 s accepts
\* those at 0.0, 0.6 and 1.2 s.
C7_FirstSampleAccepted ==
    LET k == Key("CH", "a") IN
    (/\ k \in DOMAIN sample_rates
     /\ sample_rates[k] = 2
     /\ offered = <<0, 1, 6, 9, 12>>)
    => TimesOf(data[k]) = <<0, 6, 12>>

\* C8: add_field for a key that is registered changes nothing: the registry,
\* the rate limiter, the subscriptions, the plotters and the form rows stay as
\* they are, and the duplicate is reported.
C8_DuplicateAddIsNoOp ==
    [][last'.op = "add_field" =>
       \A c \in Channels, ty \in MsgTypes, f \in Fields, n \in LayerNames, r \in {-10, 2, 5} :
         (Key(c, f) \in DOMAIN config /\ AddField(c, ty, f, r, n))
         => /\ UNCHANGED <<mapVars, tsVars, mainVars, widgets, lcSubs>>
            /\ last'.result = "Duplicate field"
            /\ last'.raised = {}]_vars

\* a duplicate add was reported for the one registered field, whose series
\* already holds a sample
C8_Witness ==
    /\ last.op = "add_field" /\ last.result = "Duplicate field"
    /\ Cardinality(DOMAIN config) = 1
    /\ \E k \in DOMAIN data : data[k] # None

\* C9: remove_field for a key that is not registered lets no exception out
\* and leaves the registry, the subscriptions and the plotters as they are.
C9_UnknownRemoveIsRecoverable ==
    [][\A k \in Keys :
         (k \notin DOMAIN config /\ RemoveField(k))
         => /\ last'.raised = {}
            /\ UNCHANGED <<mapVars, tsVars, mainVars, lcSubs>>]_vars

\* C10: remove_field of a registered key leaves the key out of the registry
\* with no active subscription feeding it; add_field of an unregistered key
\* registers it with the given configuration, last_updated 0, an empty series,
\* no y limits, a form row and exactly one active subscription; and a key
\* enters the registry only by add_field and leaves it only by remove_field.
C10_KeyLifecycle ==
    [][/\ last'.op = "remove_field" =>
          \A k \in Keys :
            (k \in DOMAIN config /\ RemoveField(k))
            => /\ k \notin DOMAIN config'
               /\ k \notin DOMAIN sample_rates' /\ k \notin DOMAIN last_updated'
               /\ ActiveSubs(lcSubs', k) = {}
       /\ last'.op = "add_field" =>
          \A c \in Channels, ty \in MsgTypes, f \in Fields, n \in LayerNames :
            LET k == Key(c, f) IN
            (k \notin DOMAIN config /\ AddField(c, ty, f, 5, n))
            => /\ k \in DOMAIN config' /\ config'[k] = <<c, ty, f, 5, n>>
               /\ sample_rates'[k] = 5 /\ last_updated'[k] = 0
               /\ data'[k] = None /\ ylims'[k] = <<None, None>>
               /\ widgets'[k]
               /\ layers'[k] \in DOMAIN mapLayers'
               /\ ActiveSubs(lcSubs', k) = {subscribers'[k]}
       /\ \A k \in Keys :
            /\ (k \in DOMAIN config' /\ k \notin DOMAIN config) => last'.op = "add_field"
            /\ (k \in DOMAIN config /\ k \notin DOMAIN config') => last'.op = "remove_field"]_vars

\* a key that had been removed is registered again, with no sample and
\* last_updated 0
C10_Witness ==
    /\ last.op = "add_field" /\ last.result = "re-added"
    /\ \E k \in DOMAIN config : data[k] = None /\ last_updated[k] = 0

\* ---------------------------------------------------------------- restore
\* a text is the snapshot of a registry: its keys differ, and each is the key
\* of its own tuple
IsSnapshot(text) ==
    /\ \A i \in 1..Len(text) : text[i][1] = Key(text[i][2][1], text[i][2][3])
    /\ \A i, j \in 1..Len(text) : text[i][1] = text[j][1] => i = j

\* the registry a snapshot stands for
RegistryOf(text) ==
    [k \in {text[i][1] : i \in 1..Len(text)} |->
        text[CHOOSE i \in 1..Len(text) : text[i][1] = k][2]]

\* C11: closeEvent writes a snapshot of the registry; when the plugin is
\* started on a snapshot, the replay through add_field ends with a registry of
\* the same keys and the same tuple for each key (and with no entry, an empty
\* registry); and a replayed entry whose key is registered by then is rejected
\* as a duplicate add, changing nothing.
C11_RestoreRoundTrip ==
    [][/\ last'.op = "closeEvent" =>
            /\ saved' # None
            /\ IsSnapshot(saved'[1])
            /\ RegistryOf(saved'[1]) = config
            /\ config' = config
       /\ (last'.op = "run" /\ last'.result = "started") =>
            /\ saved = None => config' = EmptyMap
            /\ (saved # None /\ IsSnapshot(saved[1])) =>
                  /\ config' = RegistryOf(saved[1])
                  /\ \A k \in DOMAIN config' :
                        /\ sample_rates'[k] = config'[k][4]
                        /\ k \in DOMAIN subscribers' /\ subscribers'[k] \in lcSubs'
       /\ (mainPc = "init" /\ last'.op = "add_field") =>
            LET e == Head(loaded_config)[2] IN
            Key(e[1], e[3]) \in DOMAIN config =>
               /\ last'.result = "Duplicate field"
               /\ UNCHANGED <<mapVars, tsVars, mainVars, widgets, lcSubs>>]_vars

\* the plugin was closed with two fields at different rates and started again,
\* and the replay is over
C11_Witness ==
    /\ last.op = "run" /\ last.result = "started"
    /\ saved # None /\ IsSnapshot(saved[1]) /\ Len(saved[1]) = 2
    /\ saved[1][1][2][4] # saved[1][2][2][4]
    /\ Cardinality(DOMAIN config) = 2

\* ------------------------------------------------------------ statexy_lock
\* C12: the LCM thread appends to the track and the main thread reads it for
\* interpolation only while holding statexy_lock, never both at once; the
\* main thread holds the lock for the interpolation read alone, not while it
\* converts the position or updates a layer.
C12_LockDiscipline ==
    [][/\ (lcmPc' = "statexy") <=> (statexy_lock' = "lcm")
       /\ (mainPc' = "interp") <=> (statexy_lock' = "main")
       /\ ~(lcmPc' = "statexy" /\ mainPc' = "interp")
       /\ statexy_data' # statexy_data => statexy_lock = "lcm"
       /\ last'.track_read => statexy_lock = "main"
       /\ (mapLayers' # mapLayers \/ cursor_layer' # cursor_layer
            \/ mainPc \in {"convert", "add_feature"}) => statexy_lock # "main"]_vars

\* the main thread converts an interpolated position, the lock released,
\* while the LCM thread holds the lock to append to a track
C12_Witness ==
    /\ mainPc = "convert" /\ mainLocal[1].op = "update_data"
    /\ lcmPc = "statexy" /\ statexy_lock = "lcm"
    /\ statexy_data # None

\* ---------------------------------------------------------------- shutdown
\* C13: once closeEvent has set the shutdown flag, spin_lcm ends, whether or
\* not another message arrives.
C13_DeliveryLoopStops == shutdown ~> (lcmPc = "done")

\* ------------------------------------------------------ malformed messages
\* C14: the LCM thread keeps running after a message that cannot be decoded,
\* on a scalar channel, on FIBER_STATEXY / ACOMM_STATEXY and on DIVE_INI.
C14_DeliverySurvivesDecodeFailure ==
    last.result = "malformed" => (lcmPc = "handle" /\ last.raised = {})

\* C15: a scalar message that cannot be decoded, or that lacks the field or
\* utime, emits no new_data and leaves the rate limiter, the series, the
\* layers and the subscriptions as they are; the thread goes on to the next
\* message.
C15_MalformedScalarDropped ==
    [][(last'.op = "handle_data" /\ last'.result = "malformed")
       => /\ eventQueue' = eventQueue
          /\ UNCHANGED <<mapVars, tsVars, mainVars, widgets, lcSubs>>
          /\ lcmPc' = "handle"
          /\ last'.raised = {}]_vars

\* a malformed message came for a field that already holds a sample
C15_Witness ==
    /\ last.op = "handle_data" /\ last.result = "malformed"
    /\ \E k \in DOMAIN data :
          /\ data[k] # None
          /\ ActiveSubs(lcSubs, k) # {}
          /\ last_updated[k] = MaxTime

\* ------------------------------------------------------------- view window
\* the rows of a series as a set
RowSet(rows) == {rows[i] : i \in 1..Len(rows)}

\* the time bounds a view window gives a non-empty series
WindowBounds(w, rows) ==
    LET times == {r[1] : r \in RowSet(rows)}
        min_time == CHOOSE t \in times : \A u \in times : t <= u
        max_time == CHOOSE t \in times : \A u \in times : t >= u
    IN CASE w.kind = "FULL" -> <<min_time, max_time>>
         [] w.kind = "TRAILING" -> <<max_time - w.a, max_time>>
         [] w.kind = "SINCE" -> <<w.a, max_time>>
         [] w.kind = "EXPLICIT" -> <<w.a, w.b>>

\* the samples of a series inside a view window
VisibleSlice(w, rows) ==
    LET tb == WindowBounds(w, rows)
    IN {r \in RowSet(rows) : tb[1] <= r[1] /\ r[1] <= tb[2]}

\* the step is update_data accepting a sample of key k
Accepted(k) ==
    /\ last'.op = "update_data" /\ last'.result = "accepted" /\ last'.raised = {}
    /\ k \in DOMAIN data /\ data'[k] # data[k]

\* C16: the window set last decides the slice: with a trailing window typed
\* after a range was dragged, the samples plotted are those of the trailing
\* window, and with a range dragged after a window or start time was typed
\* they are those of the dragged range.
C16_LatestWindowWins ==
    [][\A k \in Keys : Accepted(k) =>
         /\ (window.kind = "TRAILING" /\ window.after = "EXPLICIT") =>
               \A r \in RowSet(data'[k]) :
                   r \in RowSet(data_plots'[k]) <=>
                       r[1] >= data'[k][Len(data'[k])][1] - window.a
         /\ (window.kind = "EXPLICIT" /\ window.after \in {"TRAILING", "SINCE"}) =>
               \A r \in RowSet(data'[k]) :
                   r \in RowSet(data_plots'[k]) <=>
                       (window.a <= r[1] /\ r[1] <= window.b)]_vars

\* a trailing window of 2 was typed after the range from 4 to 6 had been
\* dragged, and the sample at 6 came: the sample at 2 is left out
C16_Witness ==
    /\ window.kind = "TRAILING" /\ window.after = "EXPLICIT"
    /\ last.op = "update_data" /\ last.result = "accepted"
    /\ \E k \in DOMAIN data :
          /\ Len(data[k]) = 3
          /\ Len(data_plots[k]) = 2

ShownValues(rows) == {r[2] : r \in RowSet(rows)}

\* C18: the y limits given to a field's axis are the user's ymin / ymax where
\* that bound is set, and else the least / greatest value of the samples
\* plotted, each bound on its own; an update of one field and set_ylim for
\* one field change no other field's y limits.
C18_EffectiveYRange ==
    [][/\ \A k \in Keys : Accepted(k) =>
             LET shown == ShownValues(data_plots'[k])
             IN /\ ylims[k][1] # None => axes_ylim'[k][1] = ylims[k][1][1]
                /\ ylims[k][2] # None => axes_ylim'[k][2] = ylims[k][2][1]
                /\ (ylims[k][1] = None /\ shown # {}) =>
                      /\ axes_ylim'[k][1] \in shown
                      /\ \A v \in shown : axes_ylim'[k][1] <= v
                /\ (ylims[k][2] = None /\ shown # {}) =>
                      /\ axes_ylim'[k][2] \in shown
                      /\ \A v \in shown : axes_ylim'[k][2] >= v
                /\ \A j \in DOMAIN axes_ylim \ {k} :
                      axes_ylim'[j] = axes_ylim[j] /\ ylims'[j] = ylims[j]
       /\ last'.op = "set_ylim" =>
             /\ axes_ylim' = axes_ylim
             /\ \A j \in DOMAIN ylims \ {last'.result} : ylims'[j] = ylims[j]]_vars

\* field a has ymax set to 4 and ymin unset, a trailing window of 2 is in
\* force and its samples are 3, 9 and 5: the axis goes from 5, the least
\* value plotted, to 4, while field b keeps the range of its own sample
C18_Witness ==
    /\ last.op = "update_data" /\ last.result = "accepted"
    /\ Key("CH", "a") \in DOMAIN ylims /\ Key("CH", "b") \in DOMAIN ylims
    /\ ylims[Key("CH", "a")] = <<None, Some(4)>>
    /\ window.kind = "TRAILING"
    /\ Len(data[Key("CH", "a")]) = 3
    /\ axes_ylim[Key("CH", "a")] = <<5, 4>>
    /\ axes_ylim[Key("CH", "b")] = <<7, 7>>

C19_WitnessRefresh ==
    /\ last.op = "maybe_refresh" /\ last.result = "no usable range"
    /\ \A k \in DOMAIN data : data[k] = None
    /\ DOMAIN data # {}

\* ------------------------------------------------------------------- clear
\* the points on the layer a key plots on
PointsOf(k, ls, ml) ==
    IF k \in DOMAIN ls /\ ls[k] \in DOMAIN ml THEN ml[ls[k]].features ELSE << >>

\* C20: clear_field(key) leaves the field no sample, neither a point on its
\* layer nor a row of its time series, keeps its registry entry, its
\* subscription and its sample rate, and drops no sample of another field.
C20_ClearDropsThatFieldOnly ==
    [][(last'.op = "clear_field" /\ last'.raised = {}) =>
         LET k == last'.result IN
         /\ PointsOf(k, layers', mapLayers') = << >>
         /\ data'[k] = None
         /\ data_plots'[k] = << >>
         /\ config' = config /\ k \in DOMAIN config'
         /\ subscribers' = subscribers /\ lcSubs' = lcSubs
         /\ sample_rates' = sample_rates
         /\ \A j \in DOMAIN data \ {k} :
               /\ data'[j] = data[j]
               /\ PointsOf(j, layers', mapLayers') = PointsOf(j, layers, mapLayers)]_vars

\* the part of C20 about the other fields: clear_field(key) drops no point of
\* another field
C20_OtherFieldsKept ==
    [][(last'.op = "clear_field" /\ last'.raised = {}) =>
         \A j \in DOMAIN data \ {last'.result} :
             /\ data'[j] = data[j]
             /\ PointsOf(j, layers', mapLayers') = PointsOf(j, layers, mapLayers)]_vars

\* times at which the next sample of a cleared field may come
OfferTimes == 1..6

\* C21: clear_field on a field that holds no sample changes nothing, and after
\* clear_field the next sample of the field is accepted or dropped as it
\* would be for a field just added at the same rate, whose last accepted
\* time is 0, whenever the last sample before the clear was accepted.
C21_ClearedIsAsNew ==
    [][(last'.op = "clear_field" /\ last'.raised = {}) =>
         LET k == last'.result IN
         /\ (PointsOf(k, layers, mapLayers) = << >> /\ data[k] = None) =>
               /\ mapLayers' = mapLayers /\ layers' = layers
               /\ data' = data /\ data_plots' = data_plots
               /\ last_updated' = last_updated
         /\ \A tt \in OfferTimes :
               Decimated(tt - last_updated'[k], sample_rates'[k])
                   <=> Decimated(tt - 0, sample_rates'[k])]_vars

\* ----------------------------------------------------------------- buffers
\* series old is kept, row by row, at the start of series new
KeptIn(old, new) ==
    \/ old = None
    \/ /\ new # None
       /\ Len(new) >= Len(old)
       /\ \A i \in 1..Len(old) : new[i] = old[i]

\* C22: from one step to the next the buffer of a field that stays registered
\* loses no sample and has no stored sample altered, whatever the step is (an
\* append, a typed window, y bounds, a step of another field), unless the
\* step is clear_field of that field; remove_field ends the registration.
C22_BufferOnlyGrows ==
    [][\A k \in DOMAIN config \cap DOMAIN config' :
         (~(last'.op = "clear_field" /\ last'.result = k)) =>
             /\ k \in DOMAIN data /\ k \in DOMAIN data'
             /\ KeptIn(data[k], data'[k])]_vars

\* a trailing window hides the first of three samples of a field with a y
\* bound set: the buffer still holds the three
C22_Witness ==
    /\ last.op = "update_data" /\ last.result = "accepted"
    /\ window.kind = "TRAILING"
    /\ \E k \in DOMAIN config :
          /\ ylims[k][2] # None
          /\ TimesOf(data[k]) = <<2, 4, 6>>
          /\ TimesOf(data_plots[k]) = <<4, 6>>

\* ---------------------------------------------------------- layer re-use
\* C23: add_field with the name of a layer the project already holds attaches
\* the field to that layer and leaves the points of the layer as they were.
C23_ReattachKeepsPoints ==
    [][(last'.op = "add_field" /\ last'.raised = {}) =>
         \A k \in DOMAIN config' \ DOMAIN config :
             \A id \in DOMAIN mapLayers :
                 mapLayers[id].name = config'[k][5] =>
                     /\ layers'[k] = id
                     /\ id \in DOMAIN mapLayers'
                     /\ mapLayers'[id].features = mapLayers[id].features]_vars

\* ------------------------------------------------------------------ cursor
\* C24: with the origin set and a track, every update_cursor leaves the cursor
\* layer one point, at the position interpolated on the track for the time
\* asked, whatever the fields' rates and last accepted times and whether or
\* not the cursor was placed before; it changes no last accepted time, no
\* rate, no buffer and no layer of a field.
C24_CursorNotDecimated ==
    [][(last'.op = "update_cursor" /\ lon0 # None /\ statexy_data # None) =>
         /\ last'.result = "moved" /\ last'.raised = {}
         /\ Len(cursor_layer') = 1
         /\ cursor_layer'[1].t \in CursorTimes
         /\ cursor_layer'[1].geom =
                XY2LL(Interp(cursor_layer'[1].t, statexy_data, 2),
                      Interp(cursor_layer'[1].t, statexy_data, 3),
                      lat0[1], lon0[1])
         /\ last_updated' = last_updated /\ sample_rates' = sample_rates
         /\ data' = data /\ data_plots' = data_plots
         /\ mapLayers' = mapLayers /\ layers' = layers]_vars

\* the cursor was placed at a time at which the rate limiter of a field would
\* drop a sample
C24_Witness ==
    /\ last.op = "update_cursor" /\ last.result = "moved"
    /\ Len(cursor_layer) = 1
    /\ \E k \in DOMAIN last_updated :
          /\ last_updated[k] > 0
          /\ Decimated(cursor_layer[1].t - last_updated[k], sample_rates[k])

\* ----------------------------------------------------------- interpolation
\* the rational p is the position at time t on the track: the first row's at
\* or before the first time, the last row's at or after the last time, and
\* on the straight line between the two rows around t otherwise
OnTrack(p, t, track, col) ==
    LET n == Len(track) IN
    /\ p[2] > 0
    /\ t <= track[1][1] => p = <<track[1][col], 1>>
    /\ t >= track[n][1] => p = <<track[n][col], 1>>
    /\ \A i \in 1..(n - 1) :
          (track[i][1] <= t /\ t <= track[i + 1][1]) =>
              p[1] * (track[i + 1][1] - track[i][1]) =
                  p[2] * (track[i][col] * (track[i + 1][1] - t)
                          + track[i + 1][col] * (t - track[i][1]))

\* the track of the example: x is 0, 10 and 20 at the times 10, 20 and 30
ExampleTrack == << <<10, 0, 20>>, <<20, 10, 10>>, <<30, 20, 0>> >>

\* C25: the position looked up at time t is linearly interpolated on the
\* track and never extrapolated: the first row's position for t before the
\* first time, the last row's for t after the last time; on the example track
\* the lookup at 15 gives x = 5, at 5 gives 0 and at 35 gives 20.  It holds of
\* the cursor and of the point added for a sample.
C25_InterpolationClamps ==
    [][/\ (last'.op = "update_cursor" /\ last'.result = "moved") =>
             LET c == cursor_layer'[1] IN
             /\ OnTrack(c.geom.xx, c.t, statexy_data, 2)
             /\ OnTrack(c.geom.yy, c.t, statexy_data, 3)
             /\ statexy_data = ExampleTrack =>
                   /\ c.t = 15 => c.geom.xx = <<5, 1>>
                   /\ c.t = 5 => c.geom.xx = <<0, 1>>
                   /\ c.t = 35 => c.geom.xx = <<20, 1>>
       /\ (last'.op = "update_data" /\ mapLayers' # mapLayers) =>
             \A id \in DOMAIN mapLayers' :
                 LET fs == mapLayers'[id].features
                     f == fs[Len(fs)]
                 IN /\ OnTrack(f.x, f.t, statexy_data, 2)
                    /\ OnTrack(f.y, f.t, statexy_data, 3)]_vars

\* on the example track the cursor was placed at 15, half way between the
\* rows at 10 and 20
C25_Witness ==
    /\ statexy_data = ExampleTrack
    /\ last.op = "update_cursor" /\ last.result = "moved"
    /\ cursor_layer[1].t = 15
    /\ cursor_layer[1].geom.xx = <<5, 1>>
    /\ cursor_layer[1].geom.yy = <<15, 1>>

\* -------------------------------------------------------------- projection
\* C26: whatever longitude ll2xy is given, the longitude it converts lies in
\* [-180, 180].
C26_LongitudeNormalized ==
    last.op = "ll2xy" =>
        /\ ~RatLess(last.result.out.lon, <<-180, 1>>)
        /\ ~RatLess(<<180, 1>>, last.result.out.lon)

\* C27: for every origin and every local (x, y), ll2xy of what xy2ll returns,
\* with the same origin, is (x, y) again.
C27_ProjectionRoundTrip ==
    last.op = "xy2ll, ll2xy" =>
        /\ last.result.out.xx = <<last.result.args[1], 1>>
        /\ last.result.out.yy = <<last.result.args[2], 1>>

\* -------------------------------------------------------------------- form
\* the request the claim calls validated
ValidRequest(ch, ty, f, r, n) ==
    /\ ch \notin {"", " "}
    /\ ty \in {"pkg.msg_t"}
    /\ f \in {"a", "b"}
    /\ r \in {"5", "-10", "0"}
    /\ n \notin {"", " "}

\* the number a rate text stands for
RateOf(r) == CASE r = "5" -> 5 [] r = "-10" -> -10 [] r = "0" -> 0

\* C28: a click on Add Field emits new_field, once, exactly when the channel
\* is not blank, the type imports, instantiates and has utime, the type has
\* the field, the rate is a number and the layer name is not blank: add_field
\* then runs once with the values typed (it registers a new key, and refuses
\* a registered one); otherwise nothing is emitted and nothing registered.
C28_FormEmitsOnlyValidated ==
    [][\A ch \in FormChannels, ty \in FormTypes, f \in FormFields,
          r \in FormRates, n \in FormLayers :
          (last'.op \in {"add_button_clicked", "add_field"}
           /\ AddButtonClicked(ch, ty, f, r, n)) =>
              IF ValidRequest(ch, ty, f, r, n)
              THEN /\ last'.op = "add_field"
                   /\ IF Key(ch, f) \in DOMAIN config
                      THEN last'.result = "Duplicate field" /\ config' = config
                      ELSE /\ last'.result \in {"added", "re-added"}
                           /\ config' = Put(config, Key(ch, f),
                                            <<ch, ty, f, RateOf(r), n>>)
                           /\ Key(ch, f) \in DOMAIN subscribers'
              ELSE /\ last'.op = "add_button_clicked"
                   /\ config' = config /\ subscribers' = subscribers
                   /\ lcSubs' = lcSubs /\ widgets' = widgets
                   /\ layers' = layers /\ data' = data]_vars

\* a click with everything right but a field the message type lacks was
\* refused while another field is registered
C28_Witness ==
    /\ last.op = "add_button_clicked"
    /\ last.result = "Message does not have field"
    /\ DOMAIN config = {Key("CH", "a")}

\* a click registered a field at a rate typed as "-10"
C28_WitnessEmitted ==
    /\ last.op = "add_field" /\ last.result = "added"
    /\ \E k \in DOMAIN config : config[k][4] = -10

\* ---------------------------------------------------------- time window box
\* C29: the time window box selects FULL for a blank or unparseable text,
\* SINCE for every date and time, and TRAILING of |N| seconds for a number N,
\* and the plotter takes the value emitted as that same window: after
\* handle_input the window the plotter reads from time_limit is the one the
\* text stands for, and the samples plotted next are those of that window.
C29_TimeBoxPolicy ==
    [][/\ last'.op = "handle_input" =>
             /\ Typed(time_limit').kind = window'.kind
             /\ Typed(time_limit').a = window'.a
       /\ \A k \in Keys : Accepted(k) =>
             RowSet(data_plots'[k]) = VisibleSlice(window, data'[k])]_vars

\* ------------------------------------------------------------------ origin
\* C30: whenever handle_dive_ini has handled a message it has emitted the
\* origin of the message to the main thread, also when its unsubscribe from
\* DIVE_INI failed because closeEvent had unsubscribed first.
C30_OriginEmittedWhenHandled ==
    [][(lcmPc = "dive_ini" /\ lcmPc' # "dive_ini") =>
         /\ Len(eventQueue') = Len(eventQueue) + 1
         /\ eventQueue'[Len(eventQueue')].sig = "received_origin"
         /\ eventQueue'[Len(eventQueue')].a = lcmMsg[1][1]
         /\ eventQueue'[Len(eventQueue')].b = lcmMsg[1][2]]_vars

\* ------------------------------------------------------------ independence
\* what a sample of key k leaves alone, whichever layers the fields plot on:
\* the track, the origin, the view window, the registry, every other field's
\* last accepted time, series, rows plotted and y limits, the layer each field
\* plots on, and every layer but the one k plots on
OthersKept(k) ==
    /\ statexy_data' = statexy_data /\ lon0' = lon0 /\ lat0' = lat0
    /\ viewVars' = viewVars
    /\ config' = config /\ sample_rates' = sample_rates
    /\ subscribers' = subscribers
    /\ layers' = layers /\ ylims' = ylims
    /\ DOMAIN mapLayers' = DOMAIN mapLayers
    /\ \A j \in DOMAIN config \ {k} :
          /\ last_updated'[j] = last_updated[j]
          /\ data'[j] = data[j]
          /\ data_plots'[j] = data_plots[j]
          /\ axes_ylim'[j] = axes_ylim[j]
    /\ \A id \in DOMAIN mapLayers :
          (k \in DOMAIN layers /\ id = layers[k])
          \/ mapLayers'[id] = mapLayers[id]

Displayed(k) ==
    {r \in RowSet(data_plots[k]) : xlim[1] <= r[1] /\ r[1] <= xlim[2]}

\* C32: once the view window was changed, by a typed limit or a finished drag,
\* each field shows its samples inside the window now in force without
\* waiting for its next accepted sample: it does so at the latest when the
\* timer has refreshed the plot.
C32_WindowChangeShows ==
    (last.op = "maybe_refresh" /\ last.result = "set_xlim") =>
        \A k \in DOMAIN data :
            data[k] # None => Displayed(k) = VisibleSlice(window, data[k])

\* ------------------------------------------------- rate limiter and series
\* C33: the last accepted time of a field is the time of the newest sample of
\* its series, and 0, the value add_field gives it, while the series is
\* empty: a sample that passes the rate limiter is in the series, also when
\* no point could be placed for it for want of an origin or of a track.
C33_AcceptedIsStored ==
    \A k \in DOMAIN last_updated \cap DOMAIN data :
        last_updated[k] = (IF data[k] = None THEN 0
                           ELSE data[k][Len(data[k])][1])

\* ---------------------------------------------------------------- key sets
\* C34: after every add_field and every remove_field, also an add_field that
\* failed to import the message type, the registry, the rates, the last
\* accepted times, the subscriptions, the series, axes and y limits of the
\* time series plotter and the layers of the map plotter have the same keys.
C34_KeySetsAgree ==
    last.op \in {"add_field", "remove_field"} =>
        /\ DOMAIN sample_rates = DOMAIN config
        /\ DOMAIN last_updated = DOMAIN config
        /\ DOMAIN subscribers = DOMAIN config
        /\ DOMAIN data = DOMAIN config
        /\ DOMAIN axes_ylim = DOMAIN config
        /\ DOMAIN ylims = DOMAIN config
        /\ DOMAIN layers = DOMAIN config

\* ------------------------------------------------------- sample in flight
\* C35: a sample that handle_data emitted for a field before the field was
\* removed and that update_data is given after remove_field ran is dropped:
\* update_data raises nothing and changes nothing.
C35_LateSampleDropped ==
    [][(/\ eventQueue # << >>
        /\ Head(eventQueue).sig = "new_data"
        /\ Head(eventQueue).key \notin DOMAIN config
        /\ eventQueue' = Tail(eventQueue)
        /\ last'.op = "update_data") =>
           /\ last'.raised = {}
           /\ UNCHANGED <<mapVars, tsVars, mainVars>>]_vars

\* ------------------------------------------------------------------ remove
\* C36: remove_field(k) leaves every other registered field what it had: a
\* layer that is in the project, the points on it, its series and its
\* subscription, also when the other field was added under the display name
\* of k and plots on the same layer.
C36_RemoveLeavesOthers ==
    [][(last'.op = "remove_field" /\ last'.result = "registered") =>
         \A j \in DOMAIN config' :
             /\ data'[j] = data[j] /\ data_plots'[j] = data_plots[j]
             /\ last_updated'[j] = last_updated[j]
             /\ subscribers'[j] = subscribers[j]
             /\ subscribers[j] \in lcSubs => subscribers'[j] \in lcSubs'
             /\ layers[j] \in DOMAIN mapLayers =>
                   /\ layers'[j] \in DOMAIN mapLayers'
                   /\ PointsOf(j, layers', mapLayers') = PointsOf(j, layers, mapLayers)]_vars

\* -------------------------------------------------------------------- rates
\* C37: every registered field has a sample rate above 0, so that the period
\* 1 / sample_rate of update_data is defined and positive.
C37_RatesPositive ==
    \A k \in DOMAIN config :
        /\ config[k][4] > 0
        /\ k \in DOMAIN sample_rates => sample_rates[k] > 0

\* ----------------------------------------------------------- drag gestures
\* C38: the two ends of a dragged range in force come from the press and the
\* release of one gesture: a press of the right button at a new time does
\* not put its time together with the release time of an earlier gesture,
\* and a release with no press before it, as after a typed limit, makes no
\* range.
C38_RangeFromOneGesture ==
    [][\A x \in DragTimes :
         /\ (last'.op = "on_button_press_event" /\ RightPress(x)
              /\ right_click_t0 # Some(x)) =>
                ~(/\ right_click_t0' = Some(x)
                  /\ right_click_t1' # None
                  /\ right_click_t1' = right_click_t1)
         /\ (last'.op = "on_button_release_event" /\ RightRelease(x)
              /\ right_click_t0 = None) =>
                /\ right_click_t1' = right_click_t1
                /\ right_click_t0' = None \/ right_click_t1' = None]_vars

\* -------------------------------------------------------------- lock release
\* C39: statexy_lock does not stay held: whenever handle_statexy, update_data
\* or update_cursor has taken it, it is released again, also when the
\* interpolation raises for want of a track, and it is held by a thread only
\* while that thread is inside its with statement.
C39_LockReleased ==
    /\ (statexy_lock # "") ~> (statexy_lock = "")
    /\ [](statexy_lock = "main" => mainPc = "interp")
    /\ [](statexy_lock = "lcm" => lcmPc = "statexy")

\* the interpolation of update_data raised on an empty track, with the origin
\* set and the field on a layer, and the lock is free
C39_Witness ==
    /\ last.op = "update_data"
    /\ last.raised = {<<"MapLayerPlotter.update_data", "TypeError">>}
    /\ last.track_read
    /\ statexy_data = None
    /\ statexy_lock = "" /\ mainPc = "idle"

=============================================================================
